---------------------------- MODULE Spec2Model ----------------------------
(***************************************************************************)
(* Geo-Fence service: the geofence state-transition engine.                *)
(*                                                                         *)
(*   - isPointInPolygon / determineZone   (src/src/domain/geofence.ts)     *)
(*   - VehicleManager                     (src/src/domain/vehicleManager.ts)*)
(*   - the dashboard script: debounce, route progress, drive loop          *)
(*                                        (src/unnamed/part_007)           *)
(*   - MockRouter: PATHS, GRAPH, findPath (src/unnamed/part_000)           *)
(*   - routeHandler                       (src/unnamed/part_001)           *)
(*   - eventRoutes, vehicleRoutes         (src/unnamed/part_000,           *)
(*                                         src/src/routes/vehicles.ts)     *)
(*                                                                         *)
(* Coordinates are decimal degrees with four decimals in the sources; the  *)
(* model keeps them as integers scaled by 10^4 (51.5014 is 515014).  The   *)
(* comparisons of the ray-casting test are done exactly (cross             *)
(* multiplication instead of the floating point division).                 *)
(*                                                                         *)
(* Specifications:                                                         *)
(*   Spec     the backend: VehicleManager over the configured ZONES        *)
(*   SpecGeo  determineZone / isPointInPolygon as pure functions over      *)
(*            bounded zone lists and points                                *)
(*   SpecUI   the dashboard script (debounce, route progress, drive)       *)
(*   SpecRouter  MockRouter.findPath over the route graph, for every pair  *)
(*            of zone ids                                                  *)
(*   SpecRoute   routeHandler (POST /api/route) and the dashboard's        *)
(*            getRoute over bounded waypoint lists                         *)
(*   SpecEvents  POST /events: schema validation and the handler, for      *)
(*            requests that await their answers together                   *)
(*   SpecTaxi    the dashboard with the taxi buttons: selectTaxi, polling  *)
(*            and the start of a drive                                     *)
(*   SpecRect    isPointInPolygon over the axis-aligned rectangles and the *)
(*            points of a grid                                             *)
(*   SpecPoll    the dashboard polling the backend's store while clients   *)
(*            send events                                                  *)
(***************************************************************************)
EXTENDS Integers, Sequences, FiniteSets, TLC

VARIABLES
    \* ---- backend (VehicleManager) ----
    vehicles,        \* Map<string, VehicleStatus>: a function on the known ids
    lastOp,          \* the operation that ran last: "none", "processEvent", "getVehicleStatus"
    lastEvent,       \* the event (processEvent) or [vehicleId] (getVehicleStatus) it was given
    previousStatus,  \* processEvent's local previousStatus (undefined when absent)
    result,          \* what the operation returned
    lastEventOf,     \* history: the last event processed for each vehicle id
    lastTransitionOf, \* history: the last transition emitted for each vehicle id
    \* ---- pure geometry (determineZone) ----
    geoZones,        \* the zone list handed to determineZone
    geoPoint,        \* the location handed to determineZone
    geoResult,       \* its return value (pending before the call)
    geoZonesAfter,   \* the zone list as it is after the call
    \* ---- dashboard script (part_007) ----
    availableZones,          \* let availableZones = []: the ids of the zones loaded from /zones
    vehicleInput,            \* vehicleInput.value
    isDriving,               \* let isDriving = false
    pollingInterval,         \* the vehicle id the active polling timer polls, or null
    driveInterval,           \* the id of the timer driveInterval refers to, 0 when null/undefined
    timers,                  \* the active drive timers: [id, index, length] of each closure
    activeRouteZones,        \* let activeRouteZones = []: the zone ids of the route steps
    currentRouteIndex,       \* let currentRouteIndex = 0
    stepClass,               \* the class ("", "next", "active", "completed") of each step element
    lastConfirmedZoneId,     \* let lastConfirmedZoneId = null
    potentialNewZoneId,      \* let potentialNewZoneId = null
    zoneConfirmationCounter, \* let zoneConfirmationCounter = 0
    routeRequests,           \* POST /api/route requests driveRoute is awaiting
    eventRequests,           \* POST /events requests simulateLocation is awaiting, per vehicle id sent
    statusRequests,          \* GET /vehicles/:id requests fetchStatus is awaiting
    uiCall,                  \* the call of updateUI made by the last step, if it made one
    outsideRun,              \* history: the consecutive outside observations made of the confirmed zone
    journeyStart,            \* history: whether a journey was started and no inside observation
                             \* was made since, and the zone that was confirmed when it started
    selection,               \* history: whether a vehicle was selected and updateUI has not run
                             \* since, the vehicle selected before it, the zone that was confirmed
                             \* when it was selected, and whether a response was awaited then
    \* ---- mock router (part_000) ----
    startId,         \* findPath's startId
    endId,           \* findPath's endId
    search,          \* the call of findPath: not made yet, its queue and visited set, or what it returned
    forward,         \* history: what findPath returned for the opposite direction, once called
    \* ---- route computation (part_001, part_007 getRoute) ----
    waypoints,       \* request.body.waypoints of POST /api/route
    routeReply,      \* routeHandler: not run yet, awaiting the external service, or the reply sent
    osrmCalled,      \* history: whether routeHandler consulted the external service
    mockResult,      \* history: routeHandler's const mockRoute, once MockRouter.getRoute has returned it
    routePoints,     \* the dashboard's routePoints = await getRoute(waypoints) (pending before)
    \* ---- POST /events (part_000, eventRoutes) ----
    requests,        \* the body of each request submitted, by arrival number
    replies,         \* the reply each request was answered with
    overlapped,      \* history: the requests answered while another one was awaiting its answer
    \* ---- isPointInPolygon on rectangles ----
    testPolygon,     \* the polygon handed to isPointInPolygon
    testPoint,       \* the point handed to isPointInPolygon
    testResult,      \* its return value, once it was called
    \* ---- the dashboard polling the backend ----
    outsideEvents    \* history: for each vehicle id, the events resolving to no zone that
                     \* were processed since its last event inside a zone

backendVars == <<vehicles, lastOp, lastEvent, previousStatus, result, lastEventOf,
                 lastTransitionOf>>
geoVars == <<geoZones, geoPoint, geoResult, geoZonesAfter>>
debounceVars == <<lastConfirmedZoneId, potentialNewZoneId, zoneConfirmationCounter>>
progressVars == <<activeRouteZones, currentRouteIndex, stepClass>>
historyVars == <<outsideRun, journeyStart, selection>>
routerVars == <<startId, endId, search, forward>>
routeVars == <<waypoints, routeReply, osrmCalled, mockResult, routePoints>>
eventVars == <<requests, replies, overlapped>>
rectVars == <<testPolygon, testPoint, testResult>>
pollVars == <<outsideEvents>>
uiVars == <<availableZones, vehicleInput, isDriving, pollingInterval, driveInterval,
            timers, progressVars, debounceVars,
            routeRequests, eventRequests, statusRequests, uiCall, historyVars>>

-----------------------------------------------------------------------------
(* JavaScript values *)

\* null (a zone id is a string or null)
null == "null"
\* undefined (a missing map entry, a missing transition)
undefined == [undefined |-> TRUE]
\* JavaScript truthiness of a string | null value: null and "" are falsy
Truthy(v) == v # null /\ v # ""

Pt(lat, lng) == [lat |-> lat, lng |-> lng]

-----------------------------------------------------------------------------
(* src/src/domain/geofence.ts *)

\* a plausible slip: the vertex comparison is >= where the source has >
intersectUpperEdge(point, pi, pj) ==
    LET xi == pi.lng
        yi == pi.lat
        xj == pj.lng
        yj == pj.lat
    IN  /\ (yi >= point.lat) # (yj >= point.lat)
        /\ IF yj - yi > 0
           THEN (point.lng - xi) * (yj - yi) < (xj - xi) * (point.lat - yi)
           ELSE (point.lng - xi) * (yj - yi) > (xj - xi) * (point.lat - yi)

\* const intersect = ((yi > point.lat) !== (yj > point.lat))
\*     && (point.lng < (xj - xi) * (point.lat - yi) / (yj - yi) + xi);
\* The second conjunct is only evaluated when yi # yj; it is compared exactly:
\* point.lng - xi < (xj - xi) * (point.lat - yi) / (yj - yi).
intersect(point, pi, pj) ==
    LET xi == pi.lng
        yi == pi.lat
        xj == pj.lng
        yj == pj.lat
    IN  /\ (yi > point.lat) # (yj > point.lat)
        /\ IF yj - yi > 0
           THEN (point.lng - xi) * (yj - yi) < (xj - xi) * (point.lat - yi)
           ELSE (point.lng - xi) * (yj - yi) > (xj - xi) * (point.lat - yi)

\* for (let i = 0, j = polygon.length - 1; i < polygon.length; j = i++)
\*     if (intersect) inside = !inside;
RECURSIVE rayCastLoop(_, _, _, _, _)
rayCastLoop(point, polygon, i, j, inside) ==
    IF i > Len(polygon)
    THEN inside
    ELSE rayCastLoop(point, polygon, i + 1, i,
                     IF intersect(point, polygon[i], polygon[j])
                     THEN ~inside ELSE inside)

isPointInPolygon(point, polygon) ==
    rayCastLoop(point, polygon, 1, Len(polygon), FALSE)

\* the for-of loop of determineZone, from zone k on
RECURSIVE determineZoneFrom(_, _, _)
determineZoneFrom(location, zones, k) ==
    IF k > Len(zones) THEN null
    ELSE IF isPointInPolygon(location, zones[k].polygon) THEN zones[k].id
    ELSE determineZoneFrom(location, zones, k + 1)

\* a plausible slip: the scan keeps the last matching zone instead of
\* returning at the first one
RECURSIVE determineZoneLastFrom(_, _, _, _)
determineZoneLastFrom(location, zones, k, found) ==
    IF k > Len(zones) THEN found
    ELSE determineZoneLastFrom(location, zones, k + 1,
             IF isPointInPolygon(location, zones[k].polygon)
             THEN zones[k].id ELSE found)

determineZoneLastMatch(location, zones) ==
    determineZoneLastFrom(location, zones, 1, null)

determineZone(location, zones) == determineZoneFrom(location, zones, 1)

-----------------------------------------------------------------------------
(* src/unnamed/part_002: the configured zone catalog (config/zones) *)

Rect(latN, lngW, latS, lngE) ==
    << Pt(latN, lngW), Pt(latN, lngE), Pt(latS, lngE), Pt(latS, lngW) >>

ZONES ==
    << [id |-> "downtown", polygon |-> Rect(515150, -1300, 515050, -1200)],
       [id |-> "hydepark", polygon |-> Rect(515110, -1750, 515030, -1600)],
       [id |-> "palace",   polygon |-> Rect(515030, -1450, 515000, -1380)],
       [id |-> "eye",      polygon |-> Rect(515040, -1200, 515025, -1180)],
       [id |-> "shard",    polygon |-> Rect(515055, -875,  515035, -855)],
       [id |-> "tower",    polygon |-> Rect(515090, -770,  515070, -740)],
       [id |-> "museum",   polygon |-> Rect(515200, -1280, 515180, -1250)],
       [id |-> "abbey",    polygon |-> Rect(515000, -1290, 514985, -1270)],
       [id |-> "stpauls",  polygon |-> Rect(515145, -1000, 515130, -980)] >>

ZoneIds == { ZONES[k].id : k \in 1..Len(ZONES) }


-----------------------------------------------------------------------------
(* src/src/domain/vehicleManager.ts *)

\* the template literals `Vehicle ${vehicleId} entered zone ${zoneId}` and
\* `Vehicle ${vehicleId} exited zone ${zoneId}`, kept as their words
enteredText(vehicleId, zoneId) ==
    [text |-> <<"Vehicle", vehicleId, "entered", "zone", zoneId>>]
exitedText(vehicleId, zoneId) ==
    [text |-> <<"Vehicle", vehicleId, "exited", "zone", zoneId>>]

\* this.vehicles.get(vehicleId)
mapGet(map, key) == IF key \in DOMAIN map THEN map[key] ELSE undefined

\* this.vehicles.set(vehicleId, newStatus)
mapSet(map, key, value) ==
    [k \in DOMAIN map \cup {key} |-> IF k = key THEN value ELSE map[k]]

\* a plausible slip: a direct move from one zone to another is reported as
\* the exit from the old zone
transitionExitFirst(vehicleId, prev, currentZoneId) ==
    IF prev # undefined
    THEN IF prev.currentZoneId # currentZoneId
         THEN IF Truthy(prev.currentZoneId)
              THEN exitedText(vehicleId, prev.currentZoneId)
              ELSE IF Truthy(currentZoneId)
                   THEN enteredText(vehicleId, currentZoneId)
                   ELSE undefined
         ELSE undefined
    ELSE IF Truthy(currentZoneId)
         THEN enteredText(vehicleId, currentZoneId)
         ELSE undefined

\* a plausible slip: the first sighting of a vehicle reports nothing
transitionNoFirstSighting(vehicleId, prev, currentZoneId) ==
    IF prev # undefined
    THEN IF prev.currentZoneId # currentZoneId
         THEN IF Truthy(currentZoneId)
              THEN enteredText(vehicleId, currentZoneId)
              ELSE IF Truthy(prev.currentZoneId)
                   THEN exitedText(vehicleId, prev.currentZoneId)
                   ELSE undefined
         ELSE undefined
    ELSE undefined

\* a plausible slip: the comparison with the stored zone is dropped and every
\* inside event reports an entry
transitionAlwaysEntered(vehicleId, prev, currentZoneId) ==
    IF Truthy(currentZoneId)
    THEN enteredText(vehicleId, currentZoneId)
    ELSE IF prev # undefined /\ Truthy(prev.currentZoneId)
         THEN exitedText(vehicleId, prev.currentZoneId)
         ELSE undefined

\* a plausible slip: the exit is reported with the zone of the new event
transitionExitNamesNew(vehicleId, prev, currentZoneId) ==
    IF prev # undefined
    THEN IF prev.currentZoneId # currentZoneId
         THEN IF Truthy(currentZoneId)
              THEN enteredText(vehicleId, currentZoneId)
              ELSE IF Truthy(prev.currentZoneId)
                   THEN exitedText(vehicleId, currentZoneId)
                   ELSE undefined
         ELSE undefined
    ELSE IF Truthy(currentZoneId)
         THEN enteredText(vehicleId, currentZoneId)
         ELSE undefined

\* a plausible slip: the comparison with the stored zone is === instead of !==
transitionSameZone(vehicleId, prev, currentZoneId) ==
    IF prev # undefined
    THEN IF prev.currentZoneId = currentZoneId
         THEN IF Truthy(currentZoneId)
              THEN enteredText(vehicleId, currentZoneId)
              ELSE IF Truthy(prev.currentZoneId)
                   THEN exitedText(vehicleId, prev.currentZoneId)
                   ELSE undefined
         ELSE undefined
    ELSE IF Truthy(currentZoneId)
         THEN enteredText(vehicleId, currentZoneId)
         ELSE undefined

\* processEvent, lines 18-33: let transition; if (previousStatus) {...} else {...}
transition(vehicleId, prev, currentZoneId) ==
    IF prev # undefined
    THEN IF prev.currentZoneId # currentZoneId
         THEN IF Truthy(currentZoneId)
              THEN enteredText(vehicleId, currentZoneId)
              ELSE IF Truthy(prev.currentZoneId)
                   THEN exitedText(vehicleId, prev.currentZoneId)
                   ELSE undefined
         ELSE undefined
    ELSE \* First time seeing vehicle
         IF Truthy(currentZoneId)
         THEN enteredText(vehicleId, currentZoneId)
         ELSE undefined

\* a plausible slip: the status is stored only when a transition happened,
\* so lastSeen/location go stale
storeOnlyOnTransition(map, event, newStatus_, transition_) ==
    IF transition_ = undefined /\ event.vehicleId \in DOMAIN map
    THEN map
    ELSE mapSet(map, event.vehicleId, newStatus_)

\* a plausible slip: the store is replaced by the one entry written
storeSingleEntry(map, event, newStatus_, transition_) ==
    [ k \in {event.vehicleId} |-> newStatus_ ]

\* a plausible slip: the entry of a vehicle that is outside is dropped
storeForgetsOutside(map, event, newStatus_, transition_) ==
    IF Truthy(newStatus_.currentZoneId)
    THEN mapSet(map, event.vehicleId, newStatus_)
    ELSE [ k \in DOMAIN map \ {event.vehicleId} |-> map[k] ]

\* processEvent, line 43: the store is overwritten unconditionally
store(map, event, newStatus_, transition_) ==
    mapSet(map, event.vehicleId, newStatus_)

\* processEvent, lines 14-15 and 35-41: the new status of the vehicle
newStatus(event, zones) ==
    LET currentZoneId == determineZone(event.location, zones)
    IN  [ vehicleId     |-> event.vehicleId,
          currentZoneId |-> currentZoneId,
          state         |-> IF Truthy(currentZoneId) THEN "inside" ELSE "outside",
          lastSeen      |-> event.timestamp,
          location      |-> event.location ]

-----------------------------------------------------------------------------
(* the inputs of the backend *)

\* the largest timestamp an event carries (timestamps are 1..MaxTime)
MaxTime == 2

VehicleIds == {"v1", "taxi-001"}

FarAway      == Pt(510000, 0)        \* (51.0, 0.0), the test's "far away"
PalacePoint  == Pt(515014, -1419)    \* (51.5014, -0.1419)
HydePoint    == Pt(515070, -1700)
DowntownPoint == Pt(515100, -1250)
PalaceEdge   == Pt(515030, -1400)    \* on the palace's north edge

Locations == {FarAway, PalacePoint, HydePoint, DowntownPoint, PalaceEdge}

Events == [vehicleId : VehicleIds, timestamp : 1..MaxTime, location : Locations]

-----------------------------------------------------------------------------
(* the backend's operations *)

\* public processEvent(event): { status, transition }
ProcessEvent(event) ==
    LET prev == mapGet(vehicles, event.vehicleId)
        status == newStatus(event, ZONES)
        tr == transition(event.vehicleId, prev, status.currentZoneId)
    IN  /\ vehicles' = store(vehicles, event, status, tr)
        /\ lastOp' = "processEvent"
        /\ lastEvent' = event
        /\ previousStatus' = prev
        /\ result' = [status |-> status, transition |-> tr]
        /\ lastEventOf' = [lastEventOf EXCEPT ![event.vehicleId] = event]
        /\ lastTransitionOf' = IF tr = undefined THEN lastTransitionOf
                               ELSE [lastTransitionOf EXCEPT ![event.vehicleId] = tr]

\* public getVehicleStatus(vehicleId): VehicleStatus | undefined
GetVehicleStatus(vehicleId) ==
    /\ lastOp' = "getVehicleStatus"
    /\ lastEvent' = [vehicleId |-> vehicleId]
    /\ previousStatus' = undefined
    /\ result' = mapGet(vehicles, vehicleId)
    /\ UNCHANGED <<vehicles, lastEventOf, lastTransitionOf>>

\* GET /vehicles/:id (src/src/routes/vehicles.ts, lines 15-22) on what
\* getVehicleStatus returned
vehicleRoute(status) ==
    IF status = undefined
    THEN [code |-> 404, error |-> "Vehicle not found"]
    ELSE [code |-> 200, body |-> status]

\* private vehicles = new Map()
InitBackend ==
    /\ vehicles = << >>
    /\ lastOp = "none"
    /\ lastEvent = undefined
    /\ previousStatus = undefined
    /\ result = undefined
    /\ lastEventOf = [v \in VehicleIds |-> undefined]
    /\ lastTransitionOf = [v \in VehicleIds |-> undefined]

-----------------------------------------------------------------------------
(* determineZone as a pure function: bounded zone lists and points *)

\* the longest zone list handed to determineZone
MaxZones == 3
\* the points are the grid 0..GridMax x 0..GridMax
GridMax == 3

\* overlapping zones: two squares, a triangle with a slanted edge, and a
\* square that covers the first one
ZonePool ==
    { [id |-> "A", polygon |-> << Pt(0, 0), Pt(0, 2), Pt(2, 2), Pt(2, 0) >>],
      [id |-> "B", polygon |-> << Pt(1, 1), Pt(1, 3), Pt(3, 3), Pt(3, 1) >>],
      [id |-> "C", polygon |-> << Pt(0, 0), Pt(0, 3), Pt(3, 0) >>],
      [id |-> "D", polygon |-> << Pt(2, 0), Pt(2, 2), Pt(0, 2), Pt(0, 0) >>] }

ZoneLists == UNION { [1..n -> ZonePool] : n \in 0..MaxZones }

GridPoints == { Pt(lat, lng) : lat \in 0..GridMax, lng \in 0..GridMax }

pending == "pending"

InitGeo ==
    /\ geoZones \in ZoneLists
    /\ geoPoint \in GridPoints
    /\ geoResult = pending
    /\ geoZonesAfter = geoZones

InitGeoIdle ==
    /\ geoZones = << >>
    /\ geoPoint = Pt(0, 0)
    /\ geoResult = pending
    /\ geoZonesAfter = << >>

\* one call determineZone(location, zones)
DetermineZone ==
    /\ geoResult = pending
    /\ geoResult' = determineZone(geoPoint, geoZones)
    /\ geoZonesAfter' = geoZones
    /\ UNCHANGED <<geoZones, geoPoint>>

-----------------------------------------------------------------------------
(* src/unnamed/part_007: the dashboard script *)

\* const ZONE_CONFIRMATION_THRESHOLD = 3
ZONE_CONFIRMATION_THRESHOLD == 3

\* the result of the "Smart Debounce Logic" of updateUI
debounced(confirmed, counter, display, changed) ==
    [ lastConfirmedZoneId     |-> confirmed,
      zoneConfirmationCounter |-> counter,
      displayZoneId           |-> display,
      hasZoneChanged          |-> changed ]

\* a plausible slip: a new zone is debounced like an exit (accepted only when
\* no exit is pending)
debounceEntryWaits(rawZoneId, confirmed, counter) ==
    IF Truthy(rawZoneId)
    THEN IF rawZoneId # confirmed /\ counter = 0
         THEN debounced(rawZoneId, 0, rawZoneId, TRUE)
         ELSE debounced(confirmed, 0, confirmed, FALSE)
    ELSE IF confirmed # null
         THEN IF counter + 1 >= ZONE_CONFIRMATION_THRESHOLD
              THEN debounced(null, 0, null, TRUE)
              ELSE debounced(confirmed, counter + 1, confirmed, FALSE)
         ELSE debounced(confirmed, counter, confirmed, FALSE)

\* a plausible slip: an inside observation of the confirmed zone does not
\* reset the exit counter
debounceNoReset(rawZoneId, confirmed, counter) ==
    IF Truthy(rawZoneId)
    THEN IF rawZoneId # confirmed
         THEN debounced(rawZoneId, 0, rawZoneId, TRUE)
         ELSE debounced(confirmed, counter, confirmed, FALSE)
    ELSE IF confirmed # null
         THEN IF counter + 1 >= ZONE_CONFIRMATION_THRESHOLD
              THEN debounced(null, 0, null, TRUE)
              ELSE debounced(confirmed, counter + 1, confirmed, FALSE)
         ELSE debounced(confirmed, counter, confirmed, FALSE)

\* a plausible slip: the exit counter also counts outside observations made
\* while no zone is confirmed
debounceCountsAlways(rawZoneId, confirmed, counter) ==
    IF Truthy(rawZoneId)
    THEN IF rawZoneId # confirmed
         THEN debounced(rawZoneId, 0, rawZoneId, TRUE)
         ELSE debounced(confirmed, 0, confirmed, FALSE)
    ELSE IF counter + 1 >= ZONE_CONFIRMATION_THRESHOLD
         THEN debounced(null, 0, null, confirmed # null)
         ELSE debounced(confirmed, counter + 1, confirmed, FALSE)

\* updateUI, lines 143-179: the Smart Debounce Logic, from the raw zone of the
\* status and the module-level lastConfirmedZoneId, zoneConfirmationCounter
debounce(rawZoneId, confirmed, counter) ==
    IF Truthy(rawZoneId)
    THEN \* We are inside a zone.
         IF rawZoneId # confirmed
         THEN \* New zone detected! Accept immediately
              debounced(rawZoneId, 0, rawZoneId, TRUE)
         ELSE \* Same zone, just keep it.
              debounced(confirmed, 0, confirmed, FALSE)
    ELSE \* We are OUTSIDE (currentZoneId is null)
         IF confirmed # null
         THEN IF counter + 1 >= ZONE_CONFIRMATION_THRESHOLD
              THEN \* Confirmed Exit
                   debounced(null, 0, null, TRUE)
              ELSE \* Not confirmed yet, keep showing old zone
                   debounced(confirmed, counter + 1, confirmed, FALSE)
         ELSE debounced(confirmed, counter, confirmed, FALSE)

\* updateStepVisuals(activeIndex, isInside): the classes of the step elements
\* of the route `zones`; elements that do not exist are skipped
updateStepVisuals(zones, classes, activeIndex, isInside) ==
    [ k \in 1..Len(zones) |->
        IF k > Len(classes) THEN ""
        ELSE IF k - 1 < activeIndex THEN "completed"
        ELSE IF k - 1 = activeIndex THEN (IF isInside THEN "active" ELSE "next")
        ELSE "" ]

progress(index, classes) == [currentRouteIndex |-> index, stepClass |-> classes]

\* a plausible slip: an entry into the zone of the previous step moves the
\* index back to it
updateRouteProgressRegress(newZoneId, zones, index, classes) ==
    IF index + 1 > Len(zones)
    THEN progress(index, classes)
    ELSE IF newZoneId = zones[index + 1]
    THEN progress(index, updateStepVisuals(zones, classes, index, TRUE))
    ELSE IF newZoneId = null
    THEN IF classes[index + 1] = "active"
         THEN progress(index + 1, updateStepVisuals(zones, classes, index + 1, FALSE))
         ELSE progress(index, classes)
    ELSE IF index + 2 <= Len(zones) /\ newZoneId = zones[index + 2]
         THEN progress(index + 1, updateStepVisuals(zones, classes, index + 1, TRUE))
         ELSE IF index >= 1 /\ newZoneId = zones[index]
              THEN progress(index - 1, updateStepVisuals(zones, classes, index - 1, TRUE))
              ELSE progress(index, classes)

\* a plausible slip: an exit advances the index whether or not the current
\* step was active
updateRouteProgressExitAdvances(newZoneId, zones, index, classes) ==
    IF index + 1 > Len(zones)
    THEN progress(index, classes)
    ELSE IF newZoneId = zones[index + 1]
    THEN progress(index, updateStepVisuals(zones, classes, index, TRUE))
    ELSE IF newZoneId = null
    THEN progress(index + 1, updateStepVisuals(zones, classes, index + 1, FALSE))
    ELSE IF index + 2 <= Len(zones) /\ newZoneId = zones[index + 2]
         THEN progress(index + 1, updateStepVisuals(zones, classes, index + 1, TRUE))
         ELSE progress(index, classes)

\* a plausible slip: a direct entry into the next step's zone advances the
\* index but shows the new step as the target, not as inside
updateRouteProgressNextPending(newZoneId, zones, index, classes) ==
    IF index + 1 > Len(zones)
    THEN progress(index, classes)
    ELSE IF newZoneId = zones[index + 1]
    THEN progress(index, updateStepVisuals(zones, classes, index, TRUE))
    ELSE IF newZoneId = null
    THEN IF classes[index + 1] = "active"
         THEN progress(index + 1, updateStepVisuals(zones, classes, index + 1, FALSE))
         ELSE progress(index, classes)
    ELSE IF index + 2 <= Len(zones) /\ newZoneId = zones[index + 2]
         THEN progress(index + 1, updateStepVisuals(zones, classes, index + 1, FALSE))
         ELSE progress(index, classes)

\* a plausible slip: an entry into any zone but the current target's is taken
\* for the next step (the comparison with nextZone.id is missing)
updateRouteProgressAnyEntry(newZoneId, zones, index, classes) ==
    IF index + 1 > Len(zones)
    THEN progress(index, classes)
    ELSE IF newZoneId = zones[index + 1]
    THEN progress(index, updateStepVisuals(zones, classes, index, TRUE))
    ELSE IF newZoneId = null
    THEN IF classes[index + 1] = "active"
         THEN progress(index + 1, updateStepVisuals(zones, classes, index + 1, FALSE))
         ELSE progress(index, classes)
    ELSE IF index + 2 <= Len(zones)
         THEN progress(index + 1, updateStepVisuals(zones, classes, index + 1, TRUE))
         ELSE progress(index, classes)

\* a plausible slip: the exit from the last step does not advance the index
\* past the route, the last step is shown as the target again
updateRouteProgressStopsAtLast(newZoneId, zones, index, classes) ==
    IF index + 1 > Len(zones)
    THEN progress(index, classes)
    ELSE IF newZoneId = zones[index + 1]
    THEN progress(index, updateStepVisuals(zones, classes, index, TRUE))
    ELSE IF newZoneId = null
    THEN IF classes[index + 1] = "active"
         THEN IF index + 1 < Len(zones)
              THEN progress(index + 1, updateStepVisuals(zones, classes, index + 1, FALSE))
              ELSE progress(index, updateStepVisuals(zones, classes, index, FALSE))
         ELSE progress(index, classes)
    ELSE IF index + 2 <= Len(zones) /\ newZoneId = zones[index + 2]
         THEN progress(index + 1, updateStepVisuals(zones, classes, index + 1, TRUE))
         ELSE progress(index, classes)

\* updateRouteProgress(newZoneId), on the route `zones` at `index` with the
\* step elements' classes `classes`
updateRouteProgress(newZoneId, zones, index, classes) ==
    IF index + 1 > Len(zones)
    THEN \* if (!currentZone) return
         progress(index, classes)
    ELSE IF newZoneId = zones[index + 1]
    THEN \* We ENTERED the target zone
         progress(index, updateStepVisuals(zones, classes, index, TRUE))
    ELSE IF newZoneId = null
    THEN \* We EXITED a zone
         IF classes[index + 1] = "active"
         THEN progress(index + 1, updateStepVisuals(zones, classes, index + 1, FALSE))
         ELSE progress(index, classes)
    ELSE \* We entered a zone that is NOT the current target.
         IF index + 2 <= Len(zones) /\ newZoneId = zones[index + 2]
         THEN progress(index + 1, updateStepVisuals(zones, classes, index + 1, TRUE))
         ELSE progress(index, classes)

noCall == [called |-> FALSE]

\* no journey was started since the last inside observation
noJourneyStart == [fresh |-> FALSE]

\* no vehicle was selected since the last call of updateUI
noSelection == [fresh |-> FALSE]

\* updateUI(status): the debounce, and the route progress when driving and
\* the confirmed zone changed; uiCall records the call and the state it found
updateUI(status) ==
    LET d == debounce(status.currentZoneId, lastConfirmedZoneId, zoneConfirmationCounter)
        p == IF isDriving /\ Len(activeRouteZones) > 0 /\ d.hasZoneChanged
             THEN updateRouteProgress(d.displayZoneId, activeRouteZones,
                                      currentRouteIndex, stepClass)
             ELSE progress(currentRouteIndex, stepClass)
    IN  /\ lastConfirmedZoneId' = d.lastConfirmedZoneId
        /\ zoneConfirmationCounter' = d.zoneConfirmationCounter
        /\ potentialNewZoneId' =
              IF Truthy(status.currentZoneId) /\ status.currentZoneId # lastConfirmedZoneId
              THEN null ELSE potentialNewZoneId
        /\ currentRouteIndex' = p.currentRouteIndex
        /\ stepClass' = p.stepClass
        /\ uiCall' = [ called                  |-> TRUE,
                       rawZoneId               |-> status.currentZoneId,
                       lastConfirmedZoneId     |-> lastConfirmedZoneId,
                       zoneConfirmationCounter |-> zoneConfirmationCounter,
                       currentRouteIndex       |-> currentRouteIndex,
                       stepClass               |-> stepClass,
                       journeyStart            |-> journeyStart,
                       selection               |-> selection,
                       displayZoneId           |-> d.displayZoneId,
                       hasZoneChanged          |-> d.hasZoneChanged ]
        /\ outsideRun' = IF Truthy(status.currentZoneId) \/ lastConfirmedZoneId = null
                         THEN 0 ELSE outsideRun + 1
        /\ journeyStart' = IF Truthy(status.currentZoneId) THEN noJourneyStart
                           ELSE journeyStart
        /\ selection' = noSelection
        /\ UNCHANGED activeRouteZones

\* startPolling(vehicleId): the previous interval is cleared, a new one set
startPolling(vehicleId) == pollingInterval' = vehicleId

\* a plausible slip: the debounce state is not reset with the route
initRouteProgressKeepsDebounce(zones) ==
    /\ activeRouteZones' = zones
    /\ currentRouteIndex' = 0
    /\ UNCHANGED debounceVars
    /\ stepClass' = updateStepVisuals(zones, [k \in 1..Len(zones) |-> ""], 0, FALSE)
    /\ outsideRun' = 0
    /\ journeyStart' = [fresh |-> TRUE, previous |-> lastConfirmedZoneId]
    /\ UNCHANGED selection

\* initRouteProgress(zones)
initRouteProgress(zones) ==
    /\ activeRouteZones' = zones
    /\ currentRouteIndex' = 0
    /\ lastConfirmedZoneId' = null
    /\ potentialNewZoneId' = null
    /\ zoneConfirmationCounter' = 0
    /\ stepClass' = updateStepVisuals(zones, [k \in 1..Len(zones) |-> ""], 0, FALSE)
    /\ outsideRun' = 0
    /\ journeyStart' = [fresh |-> TRUE, previous |-> lastConfirmedZoneId]
    /\ UNCHANGED selection

\* clearRouteProgress()
clearRouteProgress ==
    /\ activeRouteZones' = << >>
    /\ currentRouteIndex' = 0
    /\ stepClass' = << >>

\* stopDrive()
stopDrive ==
    /\ isDriving' = FALSE
    /\ timers' = { t \in timers : t.id # driveInterval }
    /\ driveInterval' = 0
    /\ clearRouteProgress
    /\ startPolling(vehicleInput)

-----------------------------------------------------------------------------
(* the inputs of the dashboard *)

\* the dashboard runs against the first CatalogSize zones of the catalog
CatalogSize == 3
\* the longest route (in points) the route service answers with
MaxRouteLen == 7
\* drive timers alive at once
MaxTimers == 1
\* requests of one kind awaiting their response at once
MaxInFlight == 1
\* drive timers alive at once when only the drive is followed
MaxDriveTimers == 2

\* the routes the route service answers with: an empty one and a full one
RouteLengths == {0, MaxRouteLen}

Catalog == [ k \in 1..CatalogSize |-> ZONES[k].id ]
CatalogIds == { Catalog[k] : k \in 1..CatalogSize }

\* the zone a status of the server may carry
RawZones == CatalogIds \cup {null}

UIVehicles == {"taxi-001", "taxi-002"}

\* the status the server answers with (VehicleManager.processEvent's newStatus)
serverStatus(vehicleId, zoneId) ==
    [ vehicleId     |-> vehicleId,
      currentZoneId |-> zoneId,
      state         |-> IF Truthy(zoneId) THEN "inside" ELSE "outside" ]

\* startDrive: the Grand Tour
GrandTour ==
    << "palace", "abbey", "eye", "stpauls", "tower", "shard", "museum",
       "hydepark", "palace" >>

\* the ids among 1..n that no live drive timer carries
freeTimerIdsWithin(n) == { i \in 1..n : \A t \in timers : t.id # i }

freeTimerIds == freeTimerIdsWithin(MaxTimers)

-----------------------------------------------------------------------------
(* the dashboard's handlers; each runs to its next await *)

\* fetchZones(), after the response of GET /zones
FetchZonesResponse ==
    /\ availableZones = << >>
    /\ availableZones' = Catalog
    /\ uiCall' = noCall
    /\ UNCHANGED historyVars
    /\ UNCHANGED <<vehicleInput, isDriving, pollingInterval, driveInterval, timers,
                   progressVars, debounceVars,
                   routeRequests, eventRequests, statusRequests>>

\* startDrive(), up to the await of getRoute in driveRoute
StartDrive ==
    LET tourZones == SelectSeq(GrandTour,
                               LAMBDA id : \E k \in 1..Len(availableZones) :
                                               availableZones[k] = id)
    IN  /\ isDriving \/ routeRequests < MaxInFlight
        /\ initRouteProgress(tourZones)
        /\ IF isDriving
           THEN UNCHANGED <<isDriving, pollingInterval, routeRequests>>
           ELSE /\ isDriving' = TRUE
                /\ pollingInterval' = null
                /\ routeRequests' = routeRequests + 1
        /\ uiCall' = noCall
        /\ UNCHANGED <<availableZones, vehicleInput, driveInterval, timers, eventRequests, statusRequests>>

\* a plausible slip: the failed drive keeps its route progress
RouteFailedKeepsProgress ==
    /\ routeRequests > 0
    /\ routeRequests' = routeRequests - 1
    /\ isDriving' = FALSE
    /\ UNCHANGED progressVars
    /\ startPolling(vehicleInput)
    /\ uiCall' = noCall
    /\ UNCHANGED historyVars
    /\ UNCHANGED <<availableZones, vehicleInput, driveInterval, timers, debounceVars, eventRequests, statusRequests>>

\* driveRoute after getRoute returned no route
RouteFailed ==
    /\ routeRequests > 0
    /\ routeRequests' = routeRequests - 1
    /\ isDriving' = FALSE
    /\ clearRouteProgress
    /\ startPolling(vehicleInput)
    /\ uiCall' = noCall
    /\ UNCHANGED historyVars
    /\ UNCHANGED <<availableZones, vehicleInput, driveInterval, timers, debounceVars, eventRequests, statusRequests>>

\* driveRoute after getRoute returned a route of `length` points:
\* let index = 0; driveInterval = setInterval(...); the new timer takes the
\* least of the ids `free`
driveRouteReady(length, free) ==
    /\ routeRequests > 0
    /\ free # {}
    /\ routeRequests' = routeRequests - 1
    /\ LET id == CHOOSE i \in free : \A j \in free : i <= j
       IN  /\ timers' = timers \cup {[id |-> id, index |-> 0, length |-> length]}
           /\ driveInterval' = id
    /\ uiCall' = noCall
    /\ UNCHANGED historyVars
    /\ UNCHANGED <<availableZones, vehicleInput, isDriving, pollingInterval,
                   progressVars, debounceVars,
                   eventRequests, statusRequests>>

RouteReady(length) == driveRouteReady(length, freeTimerIds)

\* the same with up to MaxDriveTimers timers alive
DriveRouteReady(length) == driveRouteReady(length, freeTimerIdsWithin(MaxDriveTimers))

\* one tick of a drive timer that has reached the end of its route
DriveTickEnd(t) ==
    /\ t \in timers
    /\ t.index >= t.length
    /\ stopDrive
    /\ uiCall' = noCall
    /\ UNCHANGED historyVars
    /\ UNCHANGED <<availableZones, vehicleInput, debounceVars,
                   routeRequests, eventRequests, statusRequests>>

\* one tick of a drive timer on a point of its route: every 2nd point is
\* sent with simulateLocation (up to its await)
DriveTickPoint(t) ==
    /\ t \in timers
    /\ t.index < t.length
    /\ IF t.index % 2 = 0
       THEN /\ eventRequests[vehicleInput] < MaxInFlight
            /\ eventRequests' = [eventRequests EXCEPT ![vehicleInput] = @ + 1]
       ELSE UNCHANGED eventRequests
    /\ timers' = (timers \ {t}) \cup {[t EXCEPT !.index = @ + 1]}
    /\ uiCall' = noCall
    /\ UNCHANGED historyVars
    /\ UNCHANGED <<availableZones, vehicleInput, isDriving, pollingInterval,
                   driveInterval, progressVars, debounceVars,
                   routeRequests, statusRequests>>

\* simulateLocation after the response of POST /events for `vehicleId`
EventResponse(vehicleId, zoneId) ==
    /\ eventRequests[vehicleId] > 0
    /\ eventRequests' = [eventRequests EXCEPT ![vehicleId] = @ - 1]
    /\ updateUI(serverStatus(vehicleId, zoneId))
    /\ IF ~isDriving THEN startPolling(vehicleId) ELSE UNCHANGED pollingInterval
    /\ UNCHANGED <<availableZones, vehicleInput, isDriving, driveInterval, timers,
                   routeRequests, statusRequests>>

\* one tick of the drive timer with id i: the callback of setInterval
DriveTick(i) ==
    \E t \in timers : t.id = i /\ (DriveTickEnd(t) \/ DriveTickPoint(t))

\* the arrival of the response of some simulated event
AnyEventResponse ==
    \E v \in UIVehicles, z \in RawZones : EventResponse(v, z)

\* the stop button: stopDrive()
StopDrive ==
    /\ isDriving
    /\ stopDrive
    /\ uiCall' = noCall
    /\ UNCHANGED historyVars
    /\ UNCHANGED <<availableZones, vehicleInput, debounceVars,
                   routeRequests, eventRequests, statusRequests>>

\* one tick of the polling timer: fetchStatus(vehicleId) up to its await
PollTick ==
    /\ pollingInterval # null
    /\ ~isDriving
    /\ statusRequests < MaxInFlight
    /\ statusRequests' = statusRequests + 1
    /\ uiCall' = noCall
    /\ UNCHANGED historyVars
    /\ UNCHANGED <<availableZones, vehicleInput, isDriving, pollingInterval,
                   driveInterval, timers, progressVars, debounceVars, routeRequests, eventRequests>>

\* fetchStatus after a 404: the vehicle has no status yet
StatusNotFound ==
    /\ statusRequests > 0
    /\ statusRequests' = statusRequests - 1
    /\ uiCall' = noCall
    /\ UNCHANGED historyVars
    /\ UNCHANGED <<availableZones, vehicleInput, isDriving, pollingInterval,
                   driveInterval, timers, progressVars, debounceVars,
                   routeRequests, eventRequests>>

\* fetchStatus after a 200 with the vehicle's status
StatusResponse(vehicleId, zoneId) ==
    /\ statusRequests > 0
    /\ statusRequests' = statusRequests - 1
    /\ updateUI(serverStatus(vehicleId, zoneId))
    /\ UNCHANGED <<availableZones, vehicleInput, isDriving, pollingInterval,
                   driveInterval, timers, routeRequests, eventRequests>>

\* selectTaxi(id) (lines 641-652): vehicleInput.value = id; if (isDriving)
\* stopDrive(); startPolling(id).  stopDrive's own startPolling polls the
\* id just written to vehicleInput
SelectTaxi(id) ==
    /\ vehicleInput' = id
    /\ IF isDriving
       THEN /\ isDriving' = FALSE
            /\ timers' = { t \in timers : t.id # driveInterval }
            /\ driveInterval' = 0
            /\ clearRouteProgress
       ELSE UNCHANGED <<isDriving, timers, driveInterval, progressVars>>
    /\ startPolling(id)
    /\ uiCall' = noCall
    /\ selection' = [ fresh    |-> TRUE,
                      from     |-> vehicleInput,
                      previous |-> lastConfirmedZoneId,
                      stale    |-> \/ statusRequests > 0
                                   \/ \E v \in UIVehicles : eventRequests[v] > 0 ]
    /\ UNCHANGED <<outsideRun, journeyStart>>
    /\ UNCHANGED <<availableZones, debounceVars, routeRequests, eventRequests, statusRequests>>

\* the state after the script has loaded: initMap() has issued fetchZones(),
\* and polling of the selected vehicle has started
InitUI ==
    /\ availableZones = << >>
    /\ vehicleInput = "taxi-001"
    /\ isDriving = FALSE
    /\ pollingInterval = "taxi-001"
    /\ driveInterval = 0
    /\ timers = {}
    /\ activeRouteZones = << >>
    /\ currentRouteIndex = 0
    /\ stepClass = << >>
    /\ lastConfirmedZoneId = null
    /\ potentialNewZoneId = null
    /\ zoneConfirmationCounter = 0
    /\ routeRequests = 0
    /\ eventRequests = [v \in UIVehicles |-> 0]
    /\ statusRequests = 0
    /\ uiCall = noCall
    /\ outsideRun = 0
    /\ journeyStart = noJourneyStart
    /\ selection = noSelection

-----------------------------------------------------------------------------
(* src/unnamed/part_000, lines 33-212: the mock router *)

\* a key `${start}-${end}` of PATHS, kept as the two ids key.split('-')
\* takes it apart into (no zone id holds a hyphen)
pathKey(from, to) == <<from, to>>

\* Object.keys(PATHS) of the literal, in the order it is written
initialKeys ==
    << pathKey("palace", "abbey"), pathKey("abbey", "eye"),
       pathKey("eye", "stpauls"), pathKey("stpauls", "tower"),
       pathKey("tower", "shard"), pathKey("shard", "museum"),
       pathKey("museum", "hydepark"), pathKey("hydepark", "palace") >>

\* const PATHS as the literal defines it
definedPaths ==
    [ k \in { initialKeys[i] : i \in 1..Len(initialKeys) } |->
        CASE k = pathKey("palace", "abbey") ->
               << Pt(515014, -1419), Pt(515008, -1390), Pt(515005, -1350),
                  Pt(515002, -1300), Pt(514993, -1273) >>
          [] k = pathKey("abbey", "eye") ->
               << Pt(514993, -1273), Pt(515008, -1250), Pt(515012, -1220),
                  Pt(515033, -1195) >>
          [] k = pathKey("eye", "stpauls") ->
               << Pt(515033, -1195), Pt(515080, -1180), Pt(515110, -1170),
                  Pt(515130, -1100), Pt(515138, -984) >>
          [] k = pathKey("stpauls", "tower") ->
               << Pt(515138, -984), Pt(515110, -900), Pt(515090, -800),
                  Pt(515081, -759) >>
          [] k = pathKey("tower", "shard") ->
               << Pt(515081, -759), Pt(515055, -754), Pt(515045, -865) >>
          [] k = pathKey("shard", "museum") ->
               << Pt(515045, -865), Pt(515070, -880), Pt(515150, -900),
                  Pt(515170, -1100), Pt(515194, -1270) >>
          [] k = pathKey("museum", "hydepark") ->
               << Pt(515194, -1270), Pt(515160, -1300), Pt(515140, -1500),
                  Pt(515120, -1600), Pt(515073, -1657) >>
          [] k = pathKey("hydepark", "palace") ->
               << Pt(515073, -1657), Pt(515030, -1500), Pt(515014, -1419) >> ]

\* reversePath(points): [...points].reverse()
reversePath(points) ==
    [ i \in 1..Len(points) |-> points[Len(points) + 1 - i] ]

\* Array.prototype.includes
includes(list, x) == \E i \in 1..Len(list) : list[i] = x

\* ZONES.forEach(z => GRAPH[z.id] = [])
emptyGraph == [ z \in ZoneIds |-> << >> ]

\* a plausible slip: the reverse path is added, the reverse adjacency is not
addEdgeOneWay(built, k) ==
    LET from == k[1]
        to == k[2]
        reverseKey == pathKey(to, from)
        paths == [ p \in DOMAIN built.paths \cup {reverseKey} |->
                     IF p = reverseKey THEN reversePath(built.paths[k])
                     ELSE built.paths[p] ]
        g0 == [ z \in DOMAIN built.graph \cup {from, to} |->
                  IF z \in DOMAIN built.graph THEN built.graph[z] ELSE << >> ]
        g1 == IF includes(g0[from], to) THEN g0
              ELSE [g0 EXCEPT ![from] = Append(@, to)]
    IN  [paths |-> paths, graph |-> g1]

\* one round of initialKeys.forEach: the reverse path is added to the paths
\* and each end to the other's neighbours, unless it is there already
addEdge(built, k) ==
    LET from == k[1]
        to == k[2]
        reverseKey == pathKey(to, from)
        paths == [ p \in DOMAIN built.paths \cup {reverseKey} |->
                     IF p = reverseKey THEN reversePath(built.paths[k])
                     ELSE built.paths[p] ]
        g0 == [ z \in DOMAIN built.graph \cup {from, to} |->
                  IF z \in DOMAIN built.graph THEN built.graph[z] ELSE << >> ]
        g1 == IF includes(g0[from], to) THEN g0
              ELSE [g0 EXCEPT ![from] = Append(@, to)]
        g2 == IF includes(g1[to], from) THEN g1
              ELSE [g1 EXCEPT ![to] = Append(@, from)]
    IN  [paths |-> paths, graph |-> g2]

RECURSIVE buildGraph(_, _, _)
buildGraph(keyList, i, built) ==
    IF i > Len(keyList) THEN built
    ELSE buildGraph(keyList, i + 1, addEdge(built, keyList[i]))

\* PATHS and GRAPH as they are once the module has loaded
routerTables ==
    buildGraph(initialKeys, 1, [paths |-> definedPaths, graph |-> emptyGraph])

PATHS == routerTables.paths
GRAPH == routerTables.graph

\* buildCoordinatePath(startId, zonePath): the loop from its k-th element on
RECURSIVE buildCoordinateFrom(_, _, _, _)
buildCoordinateFrom(currentId, zonePath, k, fullPath) ==
    IF k > Len(zonePath) THEN fullPath
    ELSE buildCoordinateFrom(
             zonePath[k], zonePath, k + 1,
             IF pathKey(currentId, zonePath[k]) \in DOMAIN PATHS
             THEN fullPath \o PATHS[pathKey(currentId, zonePath[k])]
             ELSE fullPath)

buildCoordinatePath(from, zonePath) ==
    buildCoordinateFrom(from, zonePath, 1, << >>)

\* what findPath returns: null, or an array of points
noPath == [isNull |-> TRUE]
somePath(points) == [isNull |-> FALSE, points |-> points]

\* the state of one call of findPath: the local queue and visited set, the
\* return value once it has returned, and the zone path it was built from
notCalled == [pc |-> "call"]
searching(q, seen) ==
    [pc |-> "loop", queue |-> q, visited |-> seen]
returning(value, zonePath) ==
    [pc |-> "returned", value |-> value, zonePath |-> zonePath]

\* findPath up to its loop: if (startId === endId) return []; const queue =
\* [{ id: startId, path: [] }]; const visited = new Set()
findPathEntry(from, to) ==
    IF from = to
    THEN returning(somePath(<< >>), << >>)
    ELSE searching(<< [id |-> from, path |-> << >>] >>, {})

\* the neighbours of id pushed behind the queue, each with its path
pushNeighbors(q, id, zonePath) ==
    LET neighbors == IF id \in DOMAIN GRAPH THEN GRAPH[id] ELSE << >>
    IN  q \o [ i \in 1..Len(neighbors) |->
                 [id |-> neighbors[i], path |-> Append(zonePath, neighbors[i])] ]

\* a plausible slip: queue.pop() instead of queue.shift(), a depth-first search
findPathLoopPop(from, to, q, seen) ==
    IF Len(q) = 0
    THEN returning(noPath, << >>)
    ELSE LET head == q[Len(q)]
             rest == SubSeq(q, 1, Len(q) - 1)
         IN  IF head.id = to
             THEN returning(somePath(buildCoordinatePath(from, head.path)), head.path)
             ELSE IF head.id \in seen
             THEN searching(rest, seen)
             ELSE searching(pushNeighbors(rest, head.id, head.path),
                            seen \cup {head.id})

\* a plausible slip: the zones taken from the queue are not remembered
\* (visited.add(id) is missing)
findPathLoopNoVisited(from, to, q, seen) ==
    IF Len(q) = 0
    THEN returning(noPath, << >>)
    ELSE LET head == Head(q)
             rest == Tail(q)
         IN  IF head.id = to
             THEN returning(somePath(buildCoordinatePath(from, head.path)), head.path)
             ELSE IF head.id \in seen
             THEN searching(rest, seen)
             ELSE searching(pushNeighbors(rest, head.id, head.path), seen)

\* one round of while (queue.length > 0) { ... }, or the return null after it
findPathLoop(from, to, q, seen) ==
    IF Len(q) = 0
    THEN returning(noPath, << >>)
    ELSE LET head == Head(q)
             rest == Tail(q)
         IN  IF head.id = to
             THEN returning(somePath(buildCoordinatePath(from, head.path)), head.path)
             ELSE IF head.id \in seen
             THEN \* continue
                  searching(rest, seen)
             ELSE searching(pushNeighbors(rest, head.id, head.path),
                            seen \cup {head.id})

\* MockRouter.findPath(startId, endId) is called
FindPathCall ==
    /\ search.pc = "call"
    /\ search' = findPathEntry(startId, endId)
    /\ UNCHANGED <<startId, endId, forward>>

\* the next round of its loop
FindPathLoop ==
    /\ search.pc = "loop"
    /\ search' = findPathLoop(startId, endId, search.queue, search.visited)
    /\ UNCHANGED <<startId, endId, forward>>

\* after findPath(a, b) has returned, findPath(b, a) is called
FindPathBack ==
    /\ search.pc = "returned"
    /\ forward = notCalled
    /\ forward' = search
    /\ startId' = endId
    /\ endId' = startId
    /\ search' = findPathEntry(endId, startId)

InitRouter ==
    /\ startId \in ZoneIds
    /\ endId \in ZoneIds
    /\ search = notCalled
    /\ forward = notCalled

InitRouterIdle ==
    /\ startId = null
    /\ endId = null
    /\ search = notCalled
    /\ forward = notCalled

-----------------------------------------------------------------------------
(* src/unnamed/part_000, lines 40-58 and 142-166: MockRouter.getRoute *)

\* Math.min(...xs), Math.max(...xs)
arrayMin(xs) == CHOOSE x \in { xs[i] : i \in 1..Len(xs) } : \A i \in 1..Len(xs) : x <= xs[i]
arrayMax(xs) == CHOOSE x \in { xs[i] : i \in 1..Len(xs) } : \A i \in 1..Len(xs) : x >= xs[i]

\* getCentroid(polygon), kept exact: both coordinates are returned doubled
\* (min + max instead of (min + max) / 2)
getCentroid(polygon) ==
    LET lats == [ i \in 1..Len(polygon) |-> polygon[i].lat ]
        lngs == [ i \in 1..Len(polygon) |-> polygon[i].lng ]
    IN  [ lat2 |-> arrayMin(lats) + arrayMax(lats),
          lng2 |-> arrayMin(lngs) + arrayMax(lngs) ]

\* Math.hypot(point.lat - center.lat, point.lng - center.lng) < 0.005, squared
\* and doubled: 0.005 degrees are 50 units, 100 when doubled
isNear(point, polygon) ==
    LET center == getCentroid(polygon)
        dlat == 2 * point.lat - center.lat2
        dlng == 2 * point.lng - center.lng2
    IN  dlat * dlat + dlng * dlng < 100 * 100

\* findZoneId(point): the first zone of ZONES whose centre is near, or null
findZoneId(point) ==
    IF \E k \in 1..Len(ZONES) : isNear(point, ZONES[k].polygon)
    THEN ZONES[ CHOOSE k \in 1..Len(ZONES) :
                  /\ isNear(point, ZONES[k].polygon)
                  /\ \A j \in 1..(k - 1) : ~isNear(point, ZONES[j].polygon) ].id
    ELSE null

\* MockRouter.findPath(startId, endId) run to its return
RECURSIVE findPathRun(_, _, _)
findPathRun(from, to, call) ==
    IF call.pc = "returned"
    THEN call.value
    ELSE findPathRun(from, to, findPathLoop(from, to, call.queue, call.visited))

findPath(from, to) == findPathRun(from, to, findPathEntry(from, to))

\* a plausible slip: the fallback of a segment repeats no waypoint (only the
\* end of the segment is pushed after the first segment)
RECURSIVE getRouteFromNoRepeat(_, _, _)
getRouteFromNoRepeat(points, i, fullRoute) ==
    IF i > Len(points) - 1
    THEN fullRoute
    ELSE LET start == points[i]
             end == points[i + 1]
             from == findZoneId(start)
             to == findZoneId(end)
             pathSegments == IF Truthy(from) /\ Truthy(to)
                             THEN findPath(from, to) ELSE noPath
         IN  getRouteFromNoRepeat(points, i + 1,
                          IF ~pathSegments.isNull
                          THEN fullRoute \o pathSegments.points
                          ELSE IF fullRoute = << >>
                          THEN << start, end >>
                          ELSE fullRoute \o << end >>)

\* the loop of MockRouter.getRoute from segment i on
RECURSIVE getRouteFrom(_, _, _)
getRouteFrom(points, i, fullRoute) ==
    IF i > Len(points) - 1
    THEN fullRoute
    ELSE LET start == points[i]
             end == points[i + 1]
             from == findZoneId(start)
             to == findZoneId(end)
             pathSegments == IF Truthy(from) /\ Truthy(to)
                             THEN findPath(from, to) ELSE noPath
         IN  getRouteFrom(points, i + 1,
                          IF ~pathSegments.isNull
                          THEN fullRoute \o pathSegments.points
                          ELSE fullRoute \o << start, end >>)

\* MockRouter.getRoute(waypoints)
MockRouterGetRoute(points) == getRouteFrom(points, 1, << >>)

-----------------------------------------------------------------------------
(* src/unnamed/part_001: routeHandler; src/unnamed/part_007, lines 354-377: *)
(* the dashboard's getRoute                                                  *)

\* the states of one request: received, awaiting the external service, sent
received == [pc |-> "received"]
awaitingOsrm == [pc |-> "osrm"]
sent(code, success, route, error) ==
    [pc |-> "sent", code |-> code, success |-> success, route |-> route,
     error |-> error]

\* routePoints before getRoute has returned
awaited == [pc |-> "await"]

\* mockRoute before line 21 has run
unassigned == [assigned |-> FALSE]

\* routeHandler up to its await of fetch (lines 14-47)
routeHandler(points) ==
    IF Len(points) < 2
    THEN sent(400, FALSE, noPath, "At least 2 waypoints required")
    ELSE LET mockRoute == MockRouterGetRoute(points)
         IN  IF Len(mockRoute) > Len(points) * 2
             THEN sent(200, TRUE, somePath(mockRoute), "")
             ELSE awaitingOsrm

\* the dashboard's getRoute(waypoints) on the reply: data.route when
\* data.success && data.route, null otherwise
getRoute(reply) ==
    IF reply.success /\ ~reply.route.isNull THEN reply.route ELSE noPath

\* the longest waypoint list of a request
MaxWaypoints == 3

AbbeyPoint == Pt(514993, -1273)
EyePoint == Pt(515033, -1195)
HydeGate == Pt(515073, -1657)

\* the places a waypoint is drawn from: near the centre of a zone of the
\* graph, the centre of a zone the graph does not know, far from every zone
Places == {PalacePoint, AbbeyPoint, EyePoint, HydeGate, DowntownPoint, FarAway}

WaypointLists == UNION { [1..n -> Places] : n \in 0..MaxWaypoints }

\* routeHandler, lines 14-47
RouteHandler ==
    /\ routeReply.pc = "received"
    /\ routeReply' = routeHandler(waypoints)
    /\ osrmCalled' = (routeReply'.pc = "osrm")
    /\ mockResult' = IF Len(waypoints) < 2 THEN unassigned
                    ELSE somePath(MockRouterGetRoute(waypoints))
    /\ UNCHANGED <<waypoints, routePoints>>

\* the external service answers with a route (lines 53-67); the route it
\* answers with is taken to be the waypoints themselves
OsrmRoute ==
    /\ routeReply.pc = "osrm"
    /\ routeReply' = sent(200, TRUE, somePath(waypoints), "")
    /\ UNCHANGED <<waypoints, osrmCalled, mockResult, routePoints>>

\* the external service answers without a route (line 70)
OsrmNoRoute ==
    /\ routeReply.pc = "osrm"
    /\ routeReply' = sent(500, FALSE, noPath, "No route found")
    /\ UNCHANGED <<waypoints, osrmCalled, mockResult, routePoints>>

\* the external service is unreachable, or the 5 second timeout aborts the
\* fetch (lines 71-74)
OsrmFails ==
    /\ routeReply.pc = "osrm"
    /\ routeReply' = sent(500, FALSE, noPath, "Routing failed")
    /\ UNCHANGED <<waypoints, osrmCalled, mockResult, routePoints>>

\* driveRoute: const routePoints = await getRoute(waypoints)
GetRouteResponse ==
    /\ routeReply.pc = "sent"
    /\ routePoints = awaited
    /\ routePoints' = getRoute(routeReply)
    /\ UNCHANGED <<waypoints, routeReply, osrmCalled, mockResult>>

\* the replies of POST /api/route the dashboard can receive: a route of one
\* of RouteLengths points, and the three refusals of routeHandler
polyline(n) == [k \in 1..n |-> PalacePoint]

RouteReplies ==
    { sent(200, TRUE, somePath(polyline(n)), "") : n \in RouteLengths }
        \cup { sent(400, FALSE, noPath, "At least 2 waypoints required"),
               sent(500, FALSE, noPath, "No route found"),
               sent(500, FALSE, noPath, "Routing failed") }

\* what getRoute can return: data.route or null on a reply, null when fetch
\* throws
RouteOutcomes == { getRoute(reply) : reply \in RouteReplies } \cup {noPath}

\* startDrive() with driveRoute up to `const routePoints = await getRoute(...)`
DriveRouteCall ==
    /\ StartDrive
    /\ routePoints' = awaited
    /\ UNCHANGED <<waypoints, routeReply, osrmCalled, mockResult>>

\* driveRoute from the return of getRoute with `outcome`: if (!routePoints)
\* the drive is given up, else the timer is started
DriveRouteContinues(outcome) ==
    /\ routePoints = awaited
    /\ routePoints' = outcome
    /\ IF outcome.isNull THEN RouteFailed ELSE RouteReady(Len(outcome.points))
    /\ UNCHANGED <<waypoints, routeReply, osrmCalled, mockResult>>

InitRoute ==
    /\ waypoints \in WaypointLists
    /\ routeReply = received
    /\ osrmCalled = FALSE
    /\ mockResult = unassigned
    /\ routePoints = awaited

InitRouteIdle ==
    /\ waypoints = << >>
    /\ routeReply = received
    /\ osrmCalled = FALSE
    /\ mockResult = unassigned
    /\ routePoints = awaited

-----------------------------------------------------------------------------
(* src/unnamed/part_000, lines 214-244: POST /events *)

\* the values of a JSON body: a number, a string
jsonNumber(n) == [number |-> n]
jsonString(s) == [string |-> s]

\* the JavaScript value of a property of the body (undefined when missing)
jsonValue(object, name) ==
    IF name \notin DOMAIN object THEN undefined
    ELSE IF "number" \in DOMAIN object[name] THEN object[name].number
    ELSE IF "string" \in DOMAIN object[name] THEN object[name].string
    ELSE object[name]

isString(object, name) == name \in DOMAIN object /\ "string" \in DOMAIN object[name]
isNumber(object, name) == name \in DOMAIN object /\ "number" \in DOMAIN object[name]

\* a plausible slip: the schema does not ask for the timestamp
bodySchemaNoTimestamp(body) ==
    /\ isString(body, "vehicleId")
    /\ "location" \in DOMAIN body
    /\ isNumber(body.location, "lat")
    /\ isNumber(body.location, "lng")

\* schema.body (lines 224-231): an object with a string vehicleId, a
\* date-time string timestamp and a location object with numbers lat and lng
bodySchema(body) ==
    /\ isString(body, "vehicleId")
    /\ isString(body, "timestamp")
    /\ "location" \in DOMAIN body
    /\ isNumber(body.location, "lat")
    /\ isNumber(body.location, "lng")

\* const event = request.body as VehicleEvent
asVehicleEvent(body) ==
    [ vehicleId |-> jsonValue(body, "vehicleId"),
      timestamp |-> jsonValue(body, "timestamp"),
      location  |-> Pt(jsonValue(body.location, "lat"), jsonValue(body.location, "lng")) ]

\* a plausible slip: every request gets a VehicleManager of its own
vehicleManagerPerRequest(map) == << >>

\* const { vehicleManager } = options: the one instance every request shares
vehicleManager(map) == map

\* VehicleManager.processEvent(event) on the store `map`: the store it leaves,
\* its local previousStatus and what it returns
processEvent(map, event) ==
    LET prev == mapGet(map, event.vehicleId)
        status == newStatus(event, ZONES)
        tr == transition(event.vehicleId, prev, status.currentZoneId)
    IN  [ vehicles       |-> store(map, event, status, tr),
          previousStatus |-> prev,
          result         |-> [status |-> status, transition |-> tr] ]

\* a request that was not submitted, a request that was not answered
notSubmitted == [submitted |-> FALSE]
notAnswered == [answered |-> FALSE]
answered(code, body) == [answered |-> TRUE, code |-> code, body |-> body]

\* requests the server is given at most
MaxRequests == 2

RequestIds == 1..MaxRequests

\* the places an event body names
EventPlaces == {FarAway, PalacePoint, DowntownPoint}

\* the bodies that match the schema
WellFormedBodies ==
    { [ vehicleId |-> jsonString(v),
        timestamp |-> jsonString(t),
        location  |-> [lat |-> jsonNumber(p.lat), lng |-> jsonNumber(p.lng)] ] :
      v \in VehicleIds, t \in 1..MaxTime, p \in EventPlaces }

\* one well-formed body and what is left of it with a property missing or
\* with a text in the place of a number
sampleBody ==
    [ vehicleId |-> jsonString("v1"),
      timestamp |-> jsonString(1),          \* timestamps are 1..MaxTime
      location  |-> [lat |-> jsonNumber(PalacePoint.lat),
                     lng |-> jsonNumber(PalacePoint.lng)] ]

without(object, name) == [ k \in DOMAIN object \ {name} |-> object[k] ]

MalformedBodies ==
    { without(sampleBody, "vehicleId"),
      without(sampleBody, "timestamp"),
      without(sampleBody, "location"),
      [sampleBody EXCEPT !.location = without(@, "lat")],
      [sampleBody EXCEPT !.location.lat = jsonString("north")],
      [sampleBody EXCEPT !.location.lng = jsonString("west")] }

Bodies == WellFormedBodies \cup MalformedBodies

inFlight == { r \in RequestIds : requests[r] # notSubmitted /\ replies[r] = notAnswered }

\* a client submits a request; requests are numbered as they arrive
SubmitEvent(r, body) ==
    /\ requests[r] = notSubmitted
    /\ \A q \in 1..(r - 1) : requests[q] # notSubmitted
    /\ requests' = [requests EXCEPT ![r] = body]
    /\ UNCHANGED <<replies, overlapped, backendVars>>

\* the body of request r does not match the schema: the request is answered
\* 400 and the handler is not run
RejectEvent(r) ==
    /\ r \in inFlight
    /\ ~bodySchema(requests[r])
    /\ replies' = [replies EXCEPT ![r] = answered(400, [error |-> "Bad Request"])]
    /\ overlapped' = IF inFlight # {r} THEN overlapped \cup {r} ELSE overlapped
    /\ UNCHANGED <<requests, backendVars>>

\* the handler of request r (lines 233-243), which runs without an await
HandleEvent(r) ==
    /\ r \in inFlight
    /\ bodySchema(requests[r])
    /\ LET event == asVehicleEvent(requests[r])
           out == processEvent(vehicleManager(vehicles), event)
       IN  /\ vehicles' = out.vehicles
           /\ lastOp' = "processEvent"
           /\ lastEvent' = event
           /\ previousStatus' = out.previousStatus
           /\ result' = out.result
           /\ lastEventOf' = [lastEventOf EXCEPT ![event.vehicleId] = event]
           /\ lastTransitionOf' =
                 IF out.result.transition = undefined THEN lastTransitionOf
                 ELSE [lastTransitionOf EXCEPT ![event.vehicleId] = out.result.transition]
           /\ replies' = [replies EXCEPT ![r] = answered(200, out.result)]
    /\ overlapped' = IF inFlight # {r} THEN overlapped \cup {r} ELSE overlapped
    /\ UNCHANGED requests

InitEvents ==
    /\ requests = [r \in RequestIds |-> notSubmitted]
    /\ replies = [r \in RequestIds |-> notAnswered]
    /\ overlapped = {}

-----------------------------------------------------------------------------
(* src/src/domain/geofence.ts, lines 8-19: isPointInPolygon on axis-aligned *)
(* rectangles                                                               *)

\* the largest coordinate of a rectangle and of a point.  The unit square of
\* the documented test cases is the square of side 2 here, so that its
\* centre (0.5, 0.5) is the grid point (1, 1) and (2, 2) is (4, 4)
RectMax == 4

\* the corners of the rectangle, in a cyclic order
corners(minLat, maxLat, minLng, maxLng) ==
    << Pt(minLat, minLng), Pt(minLat, maxLng), Pt(maxLat, maxLng), Pt(maxLat, minLng) >>

\* the vertex list started at its k-th vertex
rotate(points, k) ==
    [ i \in 1..Len(points) |-> points[((i + k - 2) % Len(points)) + 1] ]

\* every vertex list of every rectangle of the grid: each starting vertex,
\* both directions
Rectangles ==
    { poly \in UNION { { rotate(c, k), rotate(reversePath(c), k) } :
                         k \in 1..4,
                         c \in { corners(a, b, w, e) :
                                    a \in 0..RectMax, b \in 0..RectMax,
                                    w \in 0..RectMax, e \in 0..RectMax } } :
        /\ arrayMin([i \in 1..4 |-> poly[i].lat]) < arrayMax([i \in 1..4 |-> poly[i].lat])
        /\ arrayMin([i \in 1..4 |-> poly[i].lng]) < arrayMax([i \in 1..4 |-> poly[i].lng]) }

TestPoints == { Pt(lat, lng) : lat \in 0..RectMax, lng \in 0..RectMax }

notTested == [done |-> FALSE]
tested(inside) == [done |-> TRUE, inside |-> inside]

\* one call isPointInPolygon(point, polygon)
IsPointInPolygon ==
    /\ testResult = notTested
    /\ testResult' = tested(isPointInPolygon(testPoint, testPolygon))
    /\ UNCHANGED <<testPolygon, testPoint>>

InitRect ==
    /\ testPolygon \in Rectangles
    /\ testPoint \in TestPoints
    /\ testResult = notTested

InitRectIdle ==
    /\ testPolygon = corners(0, 1, 0, 1)
    /\ testPoint = Pt(0, 0)
    /\ testResult = notTested

-----------------------------------------------------------------------------
(* the dashboard polling the backend: GET /vehicles/:id answered from the *)
(* store (src/src/routes/vehicles.ts, part_007 lines 115-138 and 252-255) *)

\* POST /events of some client: processEvent, and the count of the outside
\* events of the vehicle
ClientEvent(event) ==
    /\ ProcessEvent(event)
    /\ outsideEvents' =
          [outsideEvents EXCEPT ![event.vehicleId] =
              IF Truthy(determineZone(event.location, ZONES)) THEN 0
              ELSE IF @ < ZONE_CONFIRMATION_THRESHOLD THEN @ + 1 ELSE @]

\* fetchStatus after the response of GET /vehicles/:id, which the route
\* answers from the store: 404 for an unknown id, the stored status otherwise
PollResponse ==
    IF vehicleRoute(mapGet(vehicles, vehicleInput)).code = 404
    THEN StatusNotFound
    ELSE StatusResponse(vehicleInput, vehicles[vehicleInput].currentZoneId)

\* the events sent while the dashboard polls: those of the polled vehicle
PollEvents ==
    [vehicleId : {"taxi-001"}, timestamp : 1..MaxTime,
     location : {FarAway, PalacePoint, HydePoint}]

InitPoll == outsideEvents = [v \in VehicleIds |-> 0]

-----------------------------------------------------------------------------
vars == <<backendVars, geoVars, uiVars, routerVars, routeVars, eventVars, rectVars, pollVars>>

\* what the steps of one subsystem leave alone
exceptBackend == <<geoVars, uiVars, routerVars, routeVars, eventVars, rectVars, pollVars>>
exceptGeo == <<backendVars, uiVars, routerVars, routeVars, eventVars, rectVars, pollVars>>
exceptUI == <<backendVars, geoVars, routerVars, routeVars, eventVars, rectVars, pollVars>>
exceptRouter == <<backendVars, geoVars, uiVars, routeVars, eventVars, rectVars, pollVars>>
exceptRoute == <<backendVars, geoVars, uiVars, routerVars, eventVars, rectVars, pollVars>>
exceptEvents == <<geoVars, uiVars, routerVars, routeVars, rectVars, pollVars>>
exceptRect == <<backendVars, geoVars, uiVars, routerVars, routeVars, eventVars, pollVars>>
exceptJourney == <<backendVars, geoVars, routerVars, eventVars, rectVars, pollVars>>
exceptPoll == <<geoVars, routerVars, routeVars, eventVars, rectVars>>

NextBackend ==
    \/ \E event \in Events : ProcessEvent(event) /\ UNCHANGED exceptBackend
    \/ \E id \in VehicleIds : GetVehicleStatus(id) /\ UNCHANGED exceptBackend

NextGeo == DetermineZone /\ UNCHANGED exceptGeo

NextRouter ==
    \/ FindPathCall /\ UNCHANGED exceptRouter
    \/ FindPathLoop /\ UNCHANGED exceptRouter
    \/ FindPathBack /\ UNCHANGED exceptRouter

NextUI ==
    \/ FetchZonesResponse /\ UNCHANGED exceptUI
    \/ StartDrive /\ UNCHANGED exceptUI
    \/ RouteFailed /\ UNCHANGED exceptUI
    \/ \E length \in RouteLengths : RouteReady(length) /\ UNCHANGED exceptUI
    \/ \E t \in timers : DriveTickEnd(t) /\ UNCHANGED exceptUI
    \/ \E t \in timers : DriveTickPoint(t) /\ UNCHANGED exceptUI
    \/ \E v \in UIVehicles, z \in RawZones :
          EventResponse(v, z) /\ UNCHANGED exceptUI
    \/ StopDrive /\ UNCHANGED exceptUI
    \/ PollTick /\ UNCHANGED exceptUI
    \/ StatusNotFound /\ UNCHANGED exceptUI
    \/ \E z \in RawZones :
          StatusResponse(vehicleInput, z) /\ UNCHANGED exceptUI

NextRoute ==
    \/ RouteHandler /\ UNCHANGED exceptRoute
    \/ OsrmRoute /\ UNCHANGED exceptRoute
    \/ OsrmNoRoute /\ UNCHANGED exceptRoute
    \/ OsrmFails /\ UNCHANGED exceptRoute
    \/ GetRouteResponse /\ UNCHANGED exceptRoute

NextPoll ==
    \/ \E event \in PollEvents : ClientEvent(event) /\ UNCHANGED <<uiVars, exceptPoll>>
    \/ PollTick /\ UNCHANGED <<backendVars, pollVars, exceptPoll>>
    \/ PollResponse /\ UNCHANGED <<backendVars, pollVars, exceptPoll>>

NextDrive ==
    \/ FetchZonesResponse /\ UNCHANGED exceptUI
    \/ StartDrive /\ UNCHANGED exceptUI
    \/ \E length \in RouteLengths : DriveRouteReady(length) /\ UNCHANGED exceptUI
    \/ \E i \in 1..MaxDriveTimers : DriveTick(i) /\ UNCHANGED exceptUI
    \/ AnyEventResponse /\ UNCHANGED exceptUI
    \/ StopDrive /\ UNCHANGED exceptUI

NextJourney ==
    \/ FetchZonesResponse /\ UNCHANGED exceptUI
    \/ DriveRouteCall /\ UNCHANGED exceptJourney
    \/ \E outcome \in RouteOutcomes :
          DriveRouteContinues(outcome) /\ UNCHANGED exceptJourney
    \/ \E i \in 1..MaxTimers : DriveTick(i) /\ UNCHANGED exceptUI
    \/ StopDrive /\ UNCHANGED exceptUI
    \/ PollTick /\ UNCHANGED exceptUI
    \/ \E z \in RawZones :
          StatusResponse(vehicleInput, z) /\ UNCHANGED exceptUI

NextRect == IsPointInPolygon /\ UNCHANGED exceptRect

NextTaxi ==
    \/ FetchZonesResponse /\ UNCHANGED exceptUI
    \/ \E id \in UIVehicles : SelectTaxi(id) /\ UNCHANGED exceptUI
    \/ StartDrive /\ UNCHANGED exceptUI
    \/ RouteFailed /\ UNCHANGED exceptUI
    \/ PollTick /\ UNCHANGED exceptUI
    \/ StatusNotFound /\ UNCHANGED exceptUI
    \/ \E z \in RawZones : StatusResponse(vehicleInput, z) /\ UNCHANGED exceptUI

NextEvents ==
    \/ \E r \in RequestIds, body \in Bodies : SubmitEvent(r, body) /\ UNCHANGED exceptEvents
    \/ \E r \in RequestIds : RejectEvent(r) /\ UNCHANGED exceptEvents
    \/ \E r \in RequestIds : HandleEvent(r) /\ UNCHANGED exceptEvents

Init == InitBackend /\ InitGeoIdle /\ InitUI /\ InitRouterIdle /\ InitRouteIdle /\ InitEvents /\ InitRectIdle /\ InitPoll

InitGeoSpec == InitBackend /\ InitGeo /\ InitUI /\ InitRouterIdle /\ InitRouteIdle /\ InitEvents /\ InitRectIdle /\ InitPoll

InitRouterSpec == InitBackend /\ InitGeoIdle /\ InitUI /\ InitRouter /\ InitRouteIdle /\ InitEvents /\ InitRectIdle /\ InitPoll

InitRouteSpec == InitBackend /\ InitGeoIdle /\ InitUI /\ InitRouterIdle /\ InitRoute /\ InitEvents /\ InitRectIdle /\ InitPoll

Spec == Init /\ [][NextBackend]_vars

SpecGeo == InitGeoSpec /\ [][NextGeo]_vars

SpecUI == Init /\ [][NextUI]_vars

SpecRouter == InitRouterSpec /\ [][NextRouter]_vars

SpecRoute == InitRouteSpec /\ [][NextRoute]_vars

SpecEvents == Init /\ [][NextEvents]_vars

\* the drive alone: setInterval fires each live timer again and again
\* whatever else happens (a tick is held back only by the cap on the events
\* in flight, hence strong fairness), and the server answers each
\* POST /events
SpecDrive ==
    /\ Init
    /\ [][NextDrive]_vars
    /\ \A i \in 1..MaxDriveTimers : SF_vars(DriveTick(i) /\ UNCHANGED exceptUI)
    /\ WF_vars(AnyEventResponse /\ UNCHANGED exceptUI)

SpecJourney == Init /\ [][NextJourney]_vars

SpecTaxi == Init /\ [][NextTaxi]_vars

InitRectSpec ==
    InitBackend /\ InitGeoIdle /\ InitUI /\ InitRouterIdle /\ InitRouteIdle /\ InitEvents /\ InitRect /\ InitPoll

SpecRect == InitRectSpec /\ [][NextRect]_vars

SpecPoll == Init /\ [][NextPoll]_vars

-----------------------------------------------------------------------------
(* Properties of the backend (checked under Spec) *)

ranProcessEvent == lastOp = "processEvent"

\* the zone the last event's location resolves to
resolvedZone == determineZone(lastEvent.location, ZONES)

\* C1: for a vehicle id with no stored status, processEvent reports the
\* transition "Vehicle <id> entered zone Z" with state inside when the
\* location resolves to zone Z, and no transition with state outside when it
\* resolves to no zone.
C1_FirstSighting ==
    (ranProcessEvent /\ previousStatus = undefined) =>
        IF resolvedZone # null
        THEN /\ result.transition = enteredText(lastEvent.vehicleId, resolvedZone)
             /\ result.status.state = "inside"
        ELSE /\ result.transition = undefined
             /\ result.status.state = "outside"

C1_Witness ==
    /\ ranProcessEvent
    /\ previousStatus = undefined
    /\ resolvedZone = "palace"
    /\ result.transition = enteredText("v1", "palace")

\* C2: with a stored non-null zone Y and an event resolving to no zone the
\* transition is "exited zone Y" (the stored zone); with a stored null zone
\* and an event resolving to zone X it is "entered zone X".
C2_ExitNamesStoredZone ==
    (ranProcessEvent /\ previousStatus # undefined) =>
        /\ (previousStatus.currentZoneId # null /\ resolvedZone = null) =>
               result.transition =
                   exitedText(lastEvent.vehicleId, previousStatus.currentZoneId)
        /\ (previousStatus.currentZoneId = null /\ resolvedZone # null) =>
               result.transition = enteredText(lastEvent.vehicleId, resolvedZone)

C2_Witness ==
    /\ ranProcessEvent
    /\ previousStatus # undefined
    /\ previousStatus.currentZoneId = "hydepark"
    /\ resolvedZone = null
    /\ result.transition = exitedText(lastEvent.vehicleId, "hydepark")

\* C3: when the previous event of the vehicle (whose location the store
\* holds) and the new event resolve to the same zone id, or both to no zone,
\* the second event reports no transition.
C3_NoTransitionSameZone ==
    (/\ ranProcessEvent
     /\ previousStatus # undefined
     /\ determineZone(previousStatus.location, ZONES) = resolvedZone)
        => result.transition = undefined

C3_Witness ==
    /\ ranProcessEvent
    /\ previousStatus # undefined
    /\ determineZone(previousStatus.location, ZONES) = "palace"
    /\ resolvedZone = "palace"
    /\ previousStatus.lastSeen # lastEvent.timestamp
    /\ result.transition = undefined

\* C4: a move in one event from zone A to a different zone B reports the
\* single transition "entered zone B" and not "exited zone A".
C4_DirectMoveIsEntry ==
    (/\ ranProcessEvent
     /\ previousStatus # undefined
     /\ previousStatus.currentZoneId # null
     /\ resolvedZone # null
     /\ previousStatus.currentZoneId # resolvedZone)
        => /\ result.transition = enteredText(lastEvent.vehicleId, resolvedZone)
           /\ result.transition #
                  exitedText(lastEvent.vehicleId, previousStatus.currentZoneId)

C4_Witness ==
    /\ ranProcessEvent
    /\ previousStatus # undefined
    /\ previousStatus.currentZoneId = "palace"
    /\ resolvedZone = "downtown"
    /\ result.transition = enteredText(lastEvent.vehicleId, "downtown")

\* the status an event must leave in the store
statusOf(event) ==
    [ vehicleId     |-> event.vehicleId,
      currentZoneId |-> determineZone(event.location, ZONES),
      state         |-> IF determineZone(event.location, ZONES) # null
                        THEN "inside" ELSE "outside",
      lastSeen      |-> event.timestamp,
      location      |-> event.location ]

\* C5: after every processEvent(e), with or without a transition, the store
\* holds for e.vehicleId e's location and timestamp, the raw zone resolution
\* of e's location and state inside exactly when that zone is non-null, and
\* getVehicleStatus returns that status.
C5_StoreOverwritten ==
    /\ \A v \in VehicleIds :
          lastEventOf[v] # undefined =>
              /\ v \in DOMAIN vehicles
              /\ vehicles[v] = statusOf(lastEventOf[v])
              /\ (vehicles[v].state = "inside") <=> (vehicles[v].currentZoneId # null)
    /\ ranProcessEvent =>
          /\ lastEventOf[lastEvent.vehicleId] = lastEvent
          /\ result.status = statusOf(lastEvent)
    /\ (lastOp = "getVehicleStatus" /\ lastEventOf[lastEvent.vehicleId] # undefined) =>
          result = statusOf(lastEventOf[lastEvent.vehicleId])

C5_Witness ==
    /\ lastOp = "getVehicleStatus"
    /\ lastEventOf[lastEvent.vehicleId] # undefined
    /\ result.location = PalacePoint
    /\ result.lastSeen = 2
    /\ result.currentZoneId = "palace"

-----------------------------------------------------------------------------
(* Properties of determineZone (checked under SpecGeo) *)

\* the indices of the zones of the list whose polygon contains the point
matching == { k \in 1..Len(geoZones) : isPointInPolygon(geoPoint, geoZones[k].polygon) }

\* C7: determineZone returns the id of the first zone, in list order, whose
\* polygon contains the point, and null when none does; with overlapping
\* zones the earlier one wins; the zone list is left as it was.
C7_FirstMatchWins ==
    geoResult # pending =>
        /\ (matching = {}) => geoResult = null
        /\ (matching # {}) =>
               \E k \in matching :
                   /\ \A m \in matching : k <= m
                   /\ geoResult = geoZones[k].id
        /\ geoZonesAfter = geoZones

C7_Witness ==
    /\ geoResult = "A"
    /\ Cardinality(matching) >= 2
    /\ \E k \in matching : geoZones[k].id = "B"

-----------------------------------------------------------------------------
(* Properties of the debounce of updateUI (checked under SpecUI) *)

\* the last step called updateUI with a status whose zone is non-null
observedInside == uiCall.called /\ uiCall.rawZoneId # null

\* the last step called updateUI with a status whose zone is null
observedOutside == uiCall.called /\ uiCall.rawZoneId = null

C9_ExitDebounce ==
    /\ lastConfirmedZoneId # null => outsideRun < 3
    /\ (observedOutside /\ uiCall.lastConfirmedZoneId # null) =>
          IF outsideRun = 3
          THEN /\ uiCall.hasZoneChanged
               /\ lastConfirmedZoneId = null
               /\ uiCall.displayZoneId = null
          ELSE /\ outsideRun \in {1, 2}
               /\ ~uiCall.hasZoneChanged
               /\ lastConfirmedZoneId = uiCall.lastConfirmedZoneId
               /\ uiCall.displayZoneId = uiCall.lastConfirmedZoneId
    /\ (observedInside /\ uiCall.rawZoneId = uiCall.lastConfirmedZoneId) =>
          /\ ~uiCall.hasZoneChanged
          /\ lastConfirmedZoneId = uiCall.rawZoneId
          /\ uiCall.displayZoneId = uiCall.rawZoneId
          /\ outsideRun = 0

C9_Witness ==
    /\ observedOutside
    /\ uiCall.lastConfirmedZoneId = "palace"
    /\ uiCall.zoneConfirmationCounter = 2
    /\ outsideRun = 3
    /\ uiCall.hasZoneChanged
    /\ lastConfirmedZoneId = null

\* C10: the exit counter is incremented (by one) only by an observation whose
\* raw zone is null while lastConfirmedZoneId is non-null; between
\* observations 0 <= counter < threshold, and the counter is 0 whenever
\* lastConfirmedZoneId is null; an outside observation with no confirmed
\* zone changes nothing and reports no change.
C10_CounterInvariant ==
    /\ [](/\ 0 <= zoneConfirmationCounter
          /\ zoneConfirmationCounter < ZONE_CONFIRMATION_THRESHOLD
          /\ (lastConfirmedZoneId = null => zoneConfirmationCounter = 0))
    /\ [][/\ zoneConfirmationCounter' > zoneConfirmationCounter =>
               /\ uiCall'.called
               /\ uiCall'.rawZoneId = null
               /\ lastConfirmedZoneId # null
               /\ zoneConfirmationCounter' = zoneConfirmationCounter + 1
          /\ (uiCall'.called /\ uiCall'.rawZoneId = null /\ lastConfirmedZoneId = null) =>
               /\ UNCHANGED <<debounceVars, progressVars>>
               /\ ~uiCall'.hasZoneChanged]_vars

C10_Witness ==
    /\ observedOutside
    /\ uiCall.lastConfirmedZoneId = "palace"
    /\ uiCall.zoneConfirmationCounter = 1
    /\ zoneConfirmationCounter = 2
    /\ lastConfirmedZoneId = "palace"

-----------------------------------------------------------------------------
(* Properties of the route progress (checked under SpecUI) *)

\* the last step was a call of updateUI
ranUpdateUI == uiCall.called

\* C11: initRouteProgress resets the debounce session (lastConfirmedZoneId
\* null, counter 0) and the step index to 0, and they stay so until the first
\* inside observation, which is then reported as a change of zone to the
\* observed zone, also when that zone was the confirmed one when the journey
\* started.
C11_JourneyResetsDebounce ==
    /\ journeyStart.fresh =>
          /\ lastConfirmedZoneId = null
          /\ zoneConfirmationCounter = 0
          /\ currentRouteIndex = 0
    /\ (ranUpdateUI /\ uiCall.journeyStart.fresh /\ Truthy(uiCall.rawZoneId)) =>
          /\ uiCall.hasZoneChanged
          /\ uiCall.displayZoneId = uiCall.rawZoneId
          /\ lastConfirmedZoneId = uiCall.rawZoneId

C11_Witness ==
    /\ ranUpdateUI
    /\ isDriving
    /\ uiCall.journeyStart.fresh
    /\ uiCall.journeyStart.previous = "palace"
    /\ uiCall.rawZoneId = "palace"
    /\ uiCall.hasZoneChanged
    /\ lastConfirmedZoneId = "palace"

\* C12: within a journey (between initRouteProgress and clearRouteProgress)
\* every call of updateUI leaves currentRouteIndex as it is or raises it by
\* one, and no other step changes it.
C12_IndexMonotone ==
    [][ /\ uiCall'.called =>
              currentRouteIndex' \in {currentRouteIndex, currentRouteIndex + 1}
        /\ (~uiCall'.called /\ activeRouteZones' # << >> /\ ~journeyStart'.fresh) =>
              currentRouteIndex' = currentRouteIndex ]_vars

C12_Witness ==
    /\ ranUpdateUI
    /\ isDriving
    /\ uiCall.currentRouteIndex = 1
    /\ currentRouteIndex = 2

\* the last step was a call of updateUI during a journey that found the
\* confirmed zone changed, i.e. a call of updateRouteProgress
confirmedChange ==
    /\ ranUpdateUI
    /\ uiCall.hasZoneChanged
    /\ isDriving
    /\ Len(activeRouteZones) > 0

confirmedExit == confirmedChange /\ uiCall.displayZoneId = null
confirmedEntry == confirmedChange /\ uiCall.displayZoneId # null

\* the class the step at the current index had before the call ("" when the
\* index was past the last step)
classBefore ==
    IF uiCall.currentRouteIndex < Len(uiCall.stepClass)
    THEN uiCall.stepClass[uiCall.currentRouteIndex + 1]
    ELSE ""

\* C13: a confirmed exit raises currentRouteIndex by one exactly when the
\* step at the index was active before it, and the new current step (when
\* there is one) is then the target, not inside; a confirmed exit with the
\* current step not active leaves the index and the steps as they were.
C13_ExitAdvances ==
    confirmedExit =>
        IF classBefore = "active"
        THEN /\ currentRouteIndex = uiCall.currentRouteIndex + 1
             /\ currentRouteIndex < Len(activeRouteZones) =>
                    stepClass[currentRouteIndex + 1] = "next"
        ELSE /\ currentRouteIndex = uiCall.currentRouteIndex
             /\ stepClass = uiCall.stepClass

C13_Witness ==
    /\ confirmedExit
    /\ classBefore = "active"
    /\ uiCall.currentRouteIndex = 0
    /\ currentRouteIndex = 1
    /\ stepClass[2] = "next"

\* the zone of the step at (0-based) index i of the journey, null when the
\* route has no such step
stepZone(i) ==
    IF i >= 0 /\ i < Len(activeRouteZones) THEN activeRouteZones[i + 1] ELSE null

\* C14: a confirmed entry into the zone of the step after the current one
\* raises currentRouteIndex by exactly one and leaves the new current step
\* active, whether the step that was current was active or not.
C14_DirectEntryNext ==
    (/\ confirmedEntry
     /\ uiCall.displayZoneId = stepZone(uiCall.currentRouteIndex + 1))
        => /\ currentRouteIndex = uiCall.currentRouteIndex + 1
           /\ stepClass[currentRouteIndex + 1] = "active"

C14_Witness ==
    /\ confirmedEntry
    /\ uiCall.displayZoneId = stepZone(uiCall.currentRouteIndex + 1)
    /\ classBefore = "next"
    /\ uiCall.currentRouteIndex = 0
    /\ currentRouteIndex = 1
    /\ stepClass[2] = "active"

\* C15: a confirmed entry into a zone that is neither the current step's nor
\* the next step's zone leaves currentRouteIndex and the class of every step
\* as they were.
C15_OtherEntryIgnored ==
    (/\ confirmedEntry
     /\ uiCall.displayZoneId # stepZone(uiCall.currentRouteIndex)
     /\ uiCall.displayZoneId # stepZone(uiCall.currentRouteIndex + 1))
        => /\ currentRouteIndex = uiCall.currentRouteIndex
           /\ stepClass = uiCall.stepClass

C15_Witness ==
    /\ confirmedEntry
    /\ uiCall.displayZoneId = "downtown"
    /\ stepZone(uiCall.currentRouteIndex) = "palace"
    /\ stepZone(uiCall.currentRouteIndex + 1) = "hydepark"
    /\ classBefore = "active"
    /\ currentRouteIndex = uiCall.currentRouteIndex
    /\ stepClass = uiCall.stepClass

\* a journey is under way: a route with steps is shown and the drive is on
onJourney == isDriving /\ Len(activeRouteZones) > 0

\* C16: at every point of a journey the steps before currentRouteIndex are
\* completed, the steps after it are pending (neither active nor completed),
\* and the step at currentRouteIndex is active exactly when the confirmed
\* zone is that step's zone, and pending otherwise.
C16_StepClassification ==
    onJourney =>
        \A k \in 1..Len(activeRouteZones) :
            /\ k - 1 < currentRouteIndex => stepClass[k] = "completed"
            /\ k - 1 > currentRouteIndex => stepClass[k] \in {"", "next"}
            /\ k - 1 = currentRouteIndex =>
                  IF lastConfirmedZoneId = activeRouteZones[k]
                  THEN stepClass[k] = "active"
                  ELSE stepClass[k] \in {"", "next"}

\* C17: currentRouteIndex stays within 0..(number of steps); the confirmed
\* exit from the active last step takes it to the number of steps, where
\* every step is completed, and from there every confirmed zone change
\* leaves the index and the steps' classes as they are.
C17_EndOfRoute ==
    /\ currentRouteIndex >= 0
    /\ currentRouteIndex <= Len(activeRouteZones)
    /\ (/\ confirmedExit
        /\ uiCall.currentRouteIndex = Len(activeRouteZones) - 1
        /\ classBefore = "active")
           => currentRouteIndex = Len(activeRouteZones)
    /\ (onJourney /\ currentRouteIndex = Len(activeRouteZones)) =>
           \A k \in 1..Len(activeRouteZones) : stepClass[k] = "completed"
    /\ (confirmedChange /\ uiCall.currentRouteIndex = Len(activeRouteZones)) =>
           /\ currentRouteIndex = uiCall.currentRouteIndex
           /\ stepClass = uiCall.stepClass

C17_Witness ==
    /\ confirmedEntry
    /\ uiCall.currentRouteIndex = Len(activeRouteZones)
    /\ uiCall.displayZoneId = activeRouteZones[1]
    /\ currentRouteIndex = Len(activeRouteZones)
    /\ \A k \in 1..Len(activeRouteZones) : stepClass[k] = "completed"

-----------------------------------------------------------------------------
(* Properties of the mock router (checked under SpecRouter) *)

\* b is a neighbour of a in the route graph
adjacent(a, b) == a \in DOMAIN GRAPH /\ includes(GRAPH[a], b)

\* the zones within n hops of a
RECURSIVE within(_, _)
within(a, n) ==
    IF n = 0 THEN {a}
    ELSE LET near == within(a, n - 1)
         IN  near \cup { z \in ZoneIds : \E y \in near : adjacent(y, z) }

connected(a, b) == b \in within(a, Cardinality(ZoneIds))

\* the least number of hops from a to a zone b connected to it
hops(a, b) ==
    CHOOSE n \in 0..Cardinality(ZoneIds) :
        /\ b \in within(a, n)
        /\ \A m \in 0..(n - 1) : b \notin within(a, m)

\* zonePath is a walk of the graph from a that ends in b
isWalk(a, zonePath, b) ==
    /\ Len(zonePath) > 0
    /\ zonePath[Len(zonePath)] = b
    /\ \A i \in 1..Len(zonePath) :
          adjacent(IF i = 1 THEN a ELSE zonePath[i - 1], zonePath[i])

\* the polylines of the edges of a walk from a, one after the other
RECURSIVE edgePolylines(_, _)
edgePolylines(a, zonePath) ==
    IF zonePath = << >> THEN << >>
    ELSE PATHS[pathKey(a, Head(zonePath))]
             \o edgePolylines(Head(zonePath), Tail(zonePath))

findPathReturned == search.pc = "returned"

\* C18: for distinct connected zone ids findPath returns a polyline, built
\* from a walk of the graph from start to end that has the least possible
\* number of hops, and the polyline is the edges' polylines PATHS[a-b] of
\* that walk one after the other.
C18_ShortestPath ==
    (findPathReturned /\ startId # endId /\ connected(startId, endId)) =>
        /\ ~search.value.isNull
        /\ isWalk(startId, search.zonePath, endId)
        /\ Len(search.zonePath) = hops(startId, endId)
        /\ search.value.points = edgePolylines(startId, search.zonePath)

C18_Witness ==
    /\ findPathReturned
    /\ startId = "palace"
    /\ endId = "stpauls"
    /\ search.zonePath = <<"abbey", "eye", "stpauls">>
    /\ Len(search.value.points) = 14

\* the rounds the loop of findPath can still make: every round that does not
\* return takes a zone out of the unvisited ones, or else an entry out of
\* the queue
variant ==
    IF search.pc = "loop"
    THEN Cardinality(ZoneIds \ search.visited) * (Cardinality(ZoneIds) + 1)
             + Len(search.queue)
    ELSE 0

\* C19: every call of findPath returns, for every pair of zone ids (each
\* round of its loop returns or lowers the variant, a natural number), with
\* the empty coordinate sequence when start and end are the same and null
\* when the graph has no path between them.
C19_Terminates ==
    /\ [](findPathReturned =>
             /\ startId = endId => search.value = somePath(<< >>)
             /\ ~connected(startId, endId) => search.value = noPath)
    /\ [][search.pc = "call" => search'.pc \in {"loop", "returned"}]_vars
    /\ [][search.pc = "loop" =>
             \/ search'.pc = "returned"
             \/ search'.pc = "loop" /\ variant' < variant]_vars

C19_Witness ==
    /\ findPathReturned
    /\ startId = "palace"
    /\ endId = "downtown"
    /\ search.value = noPath

\* C20: when findPath(A, B) returns a polyline, findPath(B, A) returns the
\* same coordinates in reverse order.
C20_ReverseSymmetry ==
    (/\ findPathReturned
     /\ forward.pc = "returned"
     /\ ~forward.value.isNull)
        => /\ ~search.value.isNull
           /\ search.value.points = reversePath(forward.value.points)

-----------------------------------------------------------------------------
(* Properties of the route computation (checked under SpecRoute) *)

\* routeHandler has run on a request of at least 2 waypoints
ranRouteHandler == routeReply.pc # "received" /\ Len(waypoints) >= 2

\* the graph result of the request at hand
graphResult == MockRouterGetRoute(waypoints)

\* C21: a graph result with at least 2 points per waypoint is the route
\* returned, and the external service is consulted only when the graph
\* result has fewer points than that
C21_GraphResultUsed ==
    ranRouteHandler =>
        /\ Len(graphResult) >= 2 * Len(waypoints) =>
              /\ ~osrmCalled
              /\ routeReply = sent(200, TRUE, somePath(graphResult), "")
        /\ osrmCalled => Len(graphResult) < 2 * Len(waypoints)

\* C22: a request with at least 2 waypoints is answered with a polyline
\* whatever the external service does, and the drive gets its route
C22_AlwaysPolyline ==
    /\ (routeReply.pc = "sent" /\ Len(waypoints) >= 2) =>
          (routeReply.success /\ ~routeReply.route.isNull)
    /\ (routePoints # awaited /\ Len(waypoints) >= 2) => ~routePoints.isNull

-----------------------------------------------------------------------------
(* Properties of the status query (checked under Spec) *)

\* C23: a status query for an id no event was processed for is answered
\* not-found; once an event was processed for an id every later query is
\* answered with a status, because entries of the store are never removed.
C23_QueryAfterEvent ==
    /\ [](lastOp = "getVehicleStatus" =>
             IF lastEventOf[lastEvent.vehicleId] = undefined
             THEN vehicleRoute(result).code = 404
             ELSE /\ vehicleRoute(result).code = 200
                  /\ vehicleRoute(result).body.vehicleId = lastEvent.vehicleId)
    /\ [][DOMAIN vehicles \subseteq DOMAIN vehicles']_vars

C23_Witness ==
    /\ lastOp = "getVehicleStatus"
    /\ lastEventOf[lastEvent.vehicleId] # undefined
    /\ vehicleRoute(result).code = 200
    /\ result.currentZoneId = null

-----------------------------------------------------------------------------
(* Properties of POST /events (checked under SpecEvents) *)

\* a body that misses vehicleId, timestamp or location, or whose lat or lng
\* is missing or is not a number
malformed(body) ==
    \/ {"vehicleId", "timestamp", "location"} \ DOMAIN body # {}
    \/ {"lat", "lng"} \ DOMAIN body.location # {}
    \/ \E c \in {"lat", "lng"} : "number" \notin DOMAIN body.location[c]

\* the step answers request r
answers(r) == replies[r] = notAnswered /\ replies'[r] # notAnswered

serial(e1, e2) ==
    LET first == processEvent(<< >>, e1)
        second == processEvent(first.vehicles, e2)
    IN  [ vehicles |-> second.vehicles,
          first    |-> first.result,
          second   |-> second.result ]

\* the requests a and b were answered as the serial order a, b answers them
\* and left the store that order leaves
asSerial(a, b) ==
    LET s == serial(asVehicleEvent(requests[a]), asVehicleEvent(requests[b]))
    IN  /\ replies[a] = answered(200, s.first)
        /\ replies[b] = answered(200, s.second)
        /\ vehicles = s.vehicles

\* the requests a and b carry events of one vehicle and are the only ones
\* that were answered
onlyTwo(a, b) ==
    /\ a # b
    /\ \A r \in RequestIds :
          (requests[r] # notSubmitted /\ ~malformed(requests[r]) /\ replies[r] # notAnswered)
              <=> r \in {a, b}
    /\ requests[a] # notSubmitted /\ requests[b] # notSubmitted
    /\ requests[a].vehicleId = requests[b].vehicleId

\* C25: two events of one vehicle that await their answers together are
\* processed without interleaving: the answers and the store are those of
\* processing the two events in one of the two serial orders.
C25_Serializable ==
    \A a, b \in RequestIds :
        (onlyTwo(a, b) /\ overlapped # {}) => (asSerial(a, b) \/ asSerial(b, a))

C25_Witness ==
    /\ onlyTwo(1, 2)
    /\ overlapped # {}
    /\ requests[1].location.lat = jsonNumber(PalacePoint.lat)
    /\ requests[2].location.lat = jsonNumber(FarAway.lat)
    /\ asSerial(2, 1)
    /\ ~asSerial(1, 2)

-----------------------------------------------------------------------------
(* Properties of the vehicle selection (checked under SpecTaxi) *)

\* the call of updateUI is the first one after another vehicle was selected,
\* and its status is of that vehicle (no response was awaited at the selection)
firstOfSelected ==
    /\ ranUpdateUI
    /\ uiCall.selection.fresh
    /\ uiCall.selection.from # vehicleInput
    /\ ~uiCall.selection.stale

\* C26: the debounce state is scoped to one session: the zone shown by the
\* first status of a newly selected vehicle is the zone of that status, as
\* in a fresh session, whatever zone was confirmed for the vehicle selected
\* before.
C26_SelectionScoped ==
    firstOfSelected => uiCall.displayZoneId = uiCall.rawZoneId

-----------------------------------------------------------------------------
(* Properties of a drive in progress (checked under SpecUI) *)

\* C27: while a drive is in progress the list of route steps is not
\* replaced, reordered or reset; only the step index changes, and it does
\* not go back, also when the drive is started again during the drive.
C27_StepsFrozen ==
    [][(isDriving /\ isDriving') =>
          /\ activeRouteZones' = activeRouteZones
          /\ currentRouteIndex' >= currentRouteIndex]_vars

\* the call of updateUI has marked step k (counted from 1) completed
newlyCompleted(k) ==
    /\ k <= Len(uiCall.stepClass)
    /\ stepClass[k] = "completed"
    /\ uiCall.stepClass[k] # "completed"

\* C28: a route step is marked completed only when the vehicle was confirmed
\* inside that step's zone and has left it: the zone confirmed before the
\* call is the step's zone and the zone confirmed by it is another one (or
\* none); a step whose zone was not entered is not marked completed.
C28_CompletedAfterExit ==
    (ranUpdateUI /\ onJourney) =>
        \A k \in 1..Len(stepClass) :
            newlyCompleted(k) =>
                /\ uiCall.lastConfirmedZoneId = activeRouteZones[k]
                /\ uiCall.displayZoneId # activeRouteZones[k]

-----------------------------------------------------------------------------
(* The integration test's scenario (checked under Spec) *)

\* C29: an event at (51.5014, -0.1419) for a vehicle last seen outside is
\* answered with the zone 'buckingham_palace' and a transition 'entered zone
\* buckingham_palace', and the status query then returns the zone
\* 'buckingham_palace'.
C29_TestScenario ==
    /\ (/\ lastOp = "processEvent"
        /\ lastEvent.location = PalacePoint
        /\ previousStatus # undefined
        /\ previousStatus.currentZoneId = null)
          => /\ result.status.state = "inside"
             /\ result.status.currentZoneId = "buckingham_palace"
             /\ result.transition = enteredText(lastEvent.vehicleId, "buckingham_palace")
    /\ (/\ lastOp = "getVehicleStatus"
        /\ result # undefined
        /\ result.location = PalacePoint)
          => result.currentZoneId = "buckingham_palace"

-----------------------------------------------------------------------------
(* Properties of isPointInPolygon on rectangles (checked under SpecRect) *)

rectLats == [i \in 1..Len(testPolygon) |-> testPolygon[i].lat]
rectLngs == [i \in 1..Len(testPolygon) |-> testPolygon[i].lng]

\* the half-open rectangle: minLat <= lat < maxLat and minLng <= lng < maxLng
halfOpen ==
    /\ arrayMin(rectLats) <= testPoint.lat
    /\ testPoint.lat < arrayMax(rectLats)
    /\ arrayMin(rectLngs) <= testPoint.lng
    /\ testPoint.lng < arrayMax(rectLngs)

\* the documented unit square (side 2 on the grid), as the test lists it
unitSquare == << Pt(0, 0), Pt(0, 2), Pt(2, 2), Pt(2, 0) >>

\* C30: for an axis-aligned rectangle, listed from any vertex in either
\* direction, isPointInPolygon is true exactly for the points of the
\* half-open rectangle (the min-lat and min-lng edges inside, the max-lat and
\* max-lng edges outside); for the unit square the centre (0.5, 0.5) is
\* inside, (2, 2) is outside and the boundary point (lat 0, lng 0.5) is inside.
C30_HalfOpenRectangle ==
    testResult.done =>
        /\ testResult.inside <=> halfOpen
        /\ (testPolygon = unitSquare /\ testPoint = Pt(1, 1)) => testResult.inside
        /\ (testPolygon = unitSquare /\ testPoint = Pt(4, 4)) => ~testResult.inside
        /\ (testPolygon = unitSquare /\ testPoint = Pt(0, 1)) => testResult.inside

C30_Witness ==
    /\ testResult.done
    /\ testPolygon = unitSquare
    /\ testPoint = Pt(0, 1)
    /\ testResult.inside

-----------------------------------------------------------------------------
(* Independence of vehicles (checked under Spec) *)

\* the status the last event of vehicle v itself left, undefined when v has
\* sent no event
ownStatus(v) ==
    IF lastEventOf[v] = undefined THEN undefined ELSE newStatus(lastEventOf[v], ZONES)

\* C31: processEvent for vehicle v leaves the stored status of every other
\* vehicle as it was, and the transition it reports is the one that v's own
\* previous status and the event give, whatever events of other vehicles were
\* processed in between.
C31_VehiclesIndependent ==
    [][lastOp' = "processEvent" =>
          LET v == lastEvent'.vehicleId
          IN  /\ \A w \in DOMAIN vehicles \ {v} :
                    w \in DOMAIN vehicles' /\ vehicles'[w] = vehicles[w]
              /\ result'.transition =
                    transition(v, ownStatus(v), result'.status.currentZoneId)]_vars

C31_Witness ==
    /\ lastOp = "processEvent"
    /\ DOMAIN vehicles = VehicleIds
    /\ result.status.currentZoneId = null
    /\ result.transition = exitedText(lastEvent.vehicleId, "palace")
    /\ \E w \in VehicleIds \ {lastEvent.vehicleId} :
          /\ vehicles[w].currentZoneId = "hydepark"
          /\ vehicles[w].lastSeen > vehicles[lastEvent.vehicleId].lastSeen

-----------------------------------------------------------------------------
(* Properties of MockRouter.getRoute (checked under SpecRoute) *)

\* what the pair (start, end) of consecutive waypoints adds to the route
segment(start, end) ==
    LET a == findZoneId(start)
        b == findZoneId(end)
    IN  IF a = null \/ b = null THEN << start, end >>
        ELSE IF a = b THEN << >>
        ELSE IF ~connected(a, b) THEN << start, end >>
        ELSE findPath(a, b).points

\* the segments of the pairs i, i+1, ... one after the other
RECURSIVE segmentsFrom(_)
segmentsFrom(i) ==
    IF i >= Len(waypoints) THEN << >>
    ELSE segment(waypoints[i], waypoints[i + 1]) \o segmentsFrom(i + 1)

\* C32: MockRouter.getRoute goes through the consecutive waypoint pairs in
\* order and appends, for a pair with an endpoint that resolves to no zone or
\* with no graph path, exactly the two raw waypoints, and for a pair with a
\* graph path exactly that path's polyline (nothing when both endpoints
\* resolve to the same zone).
C32_SegmentsInOrder ==
    mockResult # unassigned => mockResult.points = segmentsFrom(1)

C32_Witness ==
    /\ mockResult # unassigned
    /\ waypoints = << AbbeyPoint, EyePoint, DowntownPoint >>
    /\ mockResult.points = PATHS[pathKey("abbey", "eye")] \o << EyePoint, DowntownPoint >>

-----------------------------------------------------------------------------
(* Properties of the graph construction (checked under SpecRouter) *)

\* q lists the points of p in the opposite order
isReverse(p, q) ==
    /\ Len(q) = Len(p)
    /\ \A i \in 1..Len(p) : q[i] = p[Len(p) + 1 - i]

\* C33: once the graph is built, every pair (a, b) the literal defines has
\* the edge (b, a) with the polyline of (a, b) reversed, the polyline of
\* (a, b) is the one the literal gives, b is a neighbour of a exactly when a
\* is a neighbour of b (stated for the pair findPath is asked, which ranges
\* over all pairs), and no neighbour is listed twice.
C33_GraphSymmetric ==
    /\ \A k \in DOMAIN definedPaths :
          /\ pathKey(k[2], k[1]) \in DOMAIN PATHS
          /\ isReverse(definedPaths[k], PATHS[pathKey(k[2], k[1])])
          /\ PATHS[k] = definedPaths[k]
          /\ adjacent(k[1], k[2])
    /\ (startId \in ZoneIds /\ endId \in ZoneIds) =>
          (adjacent(startId, endId) <=> adjacent(endId, startId))
    /\ \A a \in DOMAIN GRAPH :
          \A i \in 1..Len(GRAPH[a]), j \in 1..Len(GRAPH[a]) :
              GRAPH[a][i] = GRAPH[a][j] => i = j

\* findPath has walked an edge the construction added: abbey to palace
C33_Witness ==
    /\ findPathReturned
    /\ startId = "abbey"
    /\ endId = "palace"
    /\ pathKey("abbey", "palace") \notin DOMAIN definedPaths
    /\ ~search.value.isNull
    /\ isReverse(definedPaths[pathKey("palace", "abbey")], search.value.points)

-----------------------------------------------------------------------------
(* Polling and the drive (checked under SpecUI) *)

\* the step is the arrival of the response of a status poll
pollResponse == statusRequests' < statusRequests

\* C34: while a drive is in progress the result of a status poll is not
\* applied: the arrival of a poll's response calls no updateUI and leaves the
\* debounce state and the route progress alone, also when the poll was issued
\* before the drive started.
C34_NoPollWhileDriving ==
    [][(isDriving /\ pollResponse) =>
          /\ ~uiCall'.called
          /\ UNCHANGED <<debounceVars, progressVars>>]_vars

-----------------------------------------------------------------------------
(* The store and the transition history (checked under Spec) *)

\* the zone the last transition of vehicle v leaves it in: the zone entered,
\* null after an exit and when no transition was emitted
zoneByHistory(v) ==
    IF lastTransitionOf[v] # undefined /\ lastTransitionOf[v].text[3] = "entered"
    THEN lastTransitionOf[v].text[5]
    ELSE null

\* C35: after any sequence of events the stored currentZoneId of a vehicle
\* is the zone of its most recent transition when that was an entry, and
\* null when it was an exit or when no transition was ever emitted; and an
\* 'exited zone Z' comes directly after the vehicle's 'entered zone Z'.
C35_StoreFollowsHistory ==
    /\ [](\A v \in DOMAIN vehicles : vehicles[v].currentZoneId = zoneByHistory(v))
    /\ [][\A v \in VehicleIds, z \in ZoneIds :
             (/\ lastOp' = "processEvent"
              /\ lastEvent'.vehicleId = v
              /\ result'.transition = exitedText(v, z))
                 => lastTransitionOf[v] = enteredText(v, z)]_vars

C35_Witness ==
    \E v \in DOMAIN vehicles :
        /\ lastTransitionOf[v] = exitedText(v, "hydepark")
        /\ vehicles[v].currentZoneId = null
        /\ lastOp = "processEvent"
        /\ lastEvent.vehicleId = v
        /\ result.transition = undefined

-----------------------------------------------------------------------------
(* The debounce against the store (checked under SpecPoll) *)

\* C36: the display confirms an exit only after the store has processed at
\* least ZONE_CONFIRMATION_THRESHOLD consecutive outside events of the
\* vehicle since its last inside event; polls that return one unchanged
\* stored outside status do not confirm an exit.
C36_ExitNeedsEvents ==
    (/\ ranUpdateUI
     /\ uiCall.hasZoneChanged
     /\ uiCall.displayZoneId = null)
        => outsideEvents[vehicleInput] >= ZONE_CONFIRMATION_THRESHOLD

-----------------------------------------------------------------------------
(* Event responses and the journey (checked under SpecUI) *)

\* the step is the arrival of the response of a simulated event
eventResponse == \E v \in UIVehicles : eventRequests'[v] < eventRequests[v]

\* the journey in progress has sent no event yet: its drive timer does not
\* exist (a timer is cleared only by stopDrive, which ends the journey)
noEventOfJourney == isDriving /\ timers = {}

\* C37: the debounce state and the step index of a journey are changed only
\* by the responses to events sent during that journey: a response to an
\* event of a previous drive that arrives after the new journey was
\* initialised changes neither lastConfirmedZoneId nor currentRouteIndex.
C37_OwnResponsesOnly ==
    [][(noEventOfJourney /\ eventResponse) =>
          UNCHANGED <<lastConfirmedZoneId, currentRouteIndex>>]_vars

-----------------------------------------------------------------------------
(* The drive timer (checked under SpecUI) *)

\* C38: a drive timer is active only while isDriving is true, and at most
\* one drive timer is active; so after stopDrive no simulated event is sent
\* until a new drive is started, also when stopDrive ran while driveRoute
\* was awaiting the route.
C38_TimerOnlyWhileDriving ==
    /\ timers # {} => isDriving
    /\ Cardinality(timers) <= 1

-----------------------------------------------------------------------------
(* The end of a drive (checked under SpecDrive) *)

\* the drive timer with id i is alive
alive(i) == \E t \in timers : t.id = i

\* the state stopDrive leaves
driveEnded ==
    /\ ~isDriving
    /\ activeRouteZones = << >>
    /\ currentRouteIndex = 0
    /\ pollingInterval # null

\* C39: when the timer fires again and again, every drive whose route was
\* obtained ends: its timer is cleared, with isDriving false, the route
\* progress cleared and polling resumed.
C39_DriveEnds ==
    \A i \in 1..MaxDriveTimers : alive(i) ~> (~alive(i) /\ driveEnded)

-----------------------------------------------------------------------------
(* The failed route computation (checked under SpecJourney) *)

\* the step is driveRoute's continuation after getRoute returned null
routeFailed == routePoints = awaited /\ routePoints' = noPath

\* C40: when the route computation fails driveRoute ends with isDriving
\* false, no drive timer started, the route progress cleared (no steps,
\* index 0) and polling of the selected vehicle resumed, so that a later
\* drive can be started.
C40_FailedDriveGivenUp ==
    [][routeFailed =>
          /\ ~isDriving'
          /\ timers' = timers
          /\ driveInterval' = driveInterval
          /\ activeRouteZones' = << >>
          /\ currentRouteIndex' = 0
          /\ stepClass' = << >>
          /\ pollingInterval' = vehicleInput]_vars

\* a drive with steps on display was given up and polling goes on
C40_Witness ==
    /\ routePoints = noPath
    /\ availableZones # << >>
    /\ ~isDriving
    /\ timers = {}
    /\ activeRouteZones = << >>
    /\ pollingInterval = vehicleInput
    /\ statusRequests > 0


=============================================================================
